---- MODULE Spec2Model ----
(***************************************************************************)
(* goada-wasm: a host-side adapter around the Ada URL parser compiled to   *)
(* WebAssembly.  The repository holds two designs of the same surface:     *)
(*   - the single shared instance behind wasmMutex  (src/goadawasm.go),    *)
(*   - one instance per Parser, no lock around guest calls                 *)
(*     (src/unnamed/part_000).                                             *)
(* Goroutines are modelled as threads with a program counter; a guest      *)
(* call (an export call or a Memory().Read/Write) is in progress while the *)
(* thread's pc is "call", and GuestReturn ends it with one of the outcomes *)
(* the guest can produce.  The finalizer goroutine of the Go runtime is    *)
(* thread Fin.                                                             *)
(***************************************************************************)
EXTENDS Integers, Sequences, FiniteSets, TLC

\* ------------------------------------------------------------------ bounds
NumG == 2          \* goroutines calling the library
MaxHandles == 2    \* Url handles created in one run
MaxPtr == 3        \* guest heap addresses 1..MaxPtr (0 is the null sentinel)
MaxLen == 1        \* longest input string (strings are carried by length)
ScratchSize == 8   \* bytes of the ada_string result struct
NumInst == 2       \* module instances (Parsers of the per-Parser design)
MaxLookups == 3    \* ExportedFunction calls followed per Parser and name
MaxStr == 4        \* strings 0..MaxStr where the guest's answers are followed

G == 1..NumG
Fin == 0
Threads == G \cup {Fin}
Handles == 1..MaxHandles
Ptrs == 1..MaxPtr
Lens == 0..MaxLen
Insts == 1..NumInst
Strs == 0..MaxStr

\* ----------------------------------------------------------- guest exports
Getters == {"ada_get_href"}
Predicates == {"ada_is_valid"}
BoolSetters == {"ada_set_href"}
VoidSetters == {"ada_set_hash"}
ExportNames ==
  {"malloc", "free", "ada_parse", "ada_parse_with_base", "ada_free"}
    \cup Getters \cup Predicates \cup BoolSetters \cup VoidSetters
\* the module either exports everything or lacks exactly one export
ExportSets == {ExportNames} \cup {ExportNames \ {n} : n \in ExportNames}

VARIABLES
  exports,      \* names the guest module exports (fixed by the embedded binary)
  initOnce,     \* sync.Once of the one-time initialization:
                \* "new" | "running" | "done"
  wasmModule,   \* the shared instance of the global design: "nil" | "ok"
  wasmMutex,    \* 0 when free, else the goroutine holding it
  nh,           \* number of Url handles created so far
  cpointer,     \* Url.cpointer of each handle
  finalizer,    \* handle has a finalizer registered (runtime.SetFinalizer)
  reach,        \* caller code still references the handle
  objs,         \* per instance: ada_url objects returned by a parse export
                \* and not yet passed to ada_free
  th,           \* per goroutine: operation, pc, locals
  adaFreeCalls, \* per handle: ada_free calls issued by Free / the finalizer
  freed,        \* per handle: an explicit Free returned
  reclaimed,    \* per handle: the finalizer ran to completion
  compiledModule, \* per-Parser design: the compiled module, "nil" | "ok"
  pmod,         \* per Parser: "none" (not created) | "open" | "closed";
                \* "off" for a Parser the run does not create
  funcCache,    \* per Parser: names memoized by getFunction
  hparser,      \* per handle: Url.parser
  users,        \* per Parser: goroutines that called into it or its handles
  initRuns,     \* times the body handed to initOnce.Do was started
  cacheMutex,   \* per Parser: Parser.mutex, 0 or the goroutine holding it
                \* exclusively
  lookups,      \* per Parser and name: module.ExportedFunction calls made
                \* by getFunction
  gtext,        \* per instance and object: the href the guest holds for it
                \* (0: none, or the object is not a valid URL); followed
                \* only where the guest's answers are (GuestReturnD)
  conv,         \* the integer conversions of readAdaString and
                \* writeStringToWasm on their own: the 8 bytes read and the
                \* two fields decoded from them; a string length and the
                \* sizes derived from it
  plife         \* per Parser: held (the caller still references it), fin
                \* (its finalizer is registered and has not run), closes
                \* (module.Close calls made), releases (times the instance
                \* was released)

vars == <<exports, initOnce, wasmModule, wasmMutex, nh, cpointer, finalizer,
          reach, objs, th, adaFreeCalls, freed, reclaimed,
          compiledModule, pmod, funcCache, hparser, users, initRuns,
          cacheMutex, lookups, gtext, conv, plife>>
\* what the operations on an initialized module leave alone
env == <<exports, initRuns, cacheMutex, lookups, gtext, conv, plife>>
gvars == <<initOnce, wasmModule, wasmMutex>>
pvars == <<compiledModule, pmod, users>>
hvars == <<nh, cpointer, finalizer, reach, hparser>>
heap == <<objs>>
ghost == <<adaFreeCalls, freed, reclaimed>>

\* ------------------------------------------------------------ thread state
NoOut == [kind |-> "none", err |-> "nil", h |-> 0, v |-> 0]
OkRes(v) == [err |-> FALSE, val |-> v, val2 |-> 0]
ErrRes == [err |-> TRUE, val |-> 0, val2 |-> 0]

\* op, pc: the operation and where it stands; ret, k: where a guest call and
\* writeStringToWasm return to; fn, arg: the call in progress; r: what the
\* last call returned; defers: pointers of the pending `defer wasmFree`;
\* out: the operation's result.  Recorded for the properties only: called
\* (a guest call was made), nfree (ada_free calls on obj by New),
\* onFreed (the handle was already freed when the operation started),
\* vstate (what the guest answered to ada_is_valid in New), waited (the
\* goroutine was blocked in initOnce.Do while another ran the body),
\* onClosed (the Parser was already closed when the operation started),
\* cause (the first thing that went wrong in a guest call of the operation,
\* see Cause), before (the href of the object when a setter export was
\* called), src and expect (the handle whose Href() the caller is parsing
\* again, and the string it returned), wblock (the block whose
\* Memory().Write failed in writeStringToWasm, 0 if none), wfrees and wuse
\* (free calls on that block; some other guest call was made after the
\* failure), salloc (wasmMalloc(8) of readAdaString returned without an
\* error) and frees (calls of the free export), sdec, sbp and slen (the
\* result struct was read, and its two fields), sreads (reads of string
\* bytes), rserr (the error result of readAdaString: "nil" or "err").
IdleT ==
  [op |-> "none", pc |-> "idle", ret |-> "", k |-> "", fn |-> "", arg |-> 0,
   inst |-> 0, h |-> 0, ulen |-> 0, blen |-> 0, urlPtr |-> 0, obj |-> 0, wptr |-> 0,
   name |-> "", defers |-> <<>>, r |-> OkRes(0), out |-> NoOut,
   called |-> FALSE, nfree |-> 0, onFreed |-> FALSE, vstate |-> "none",
   waited |-> FALSE, onClosed |-> FALSE, cause |-> "", before |-> 0,
   src |-> 0, expect |-> 0, wblock |-> 0, wfrees |-> 0, wuse |-> FALSE,
   salloc |-> FALSE, frees |-> 0, sdec |-> FALSE, sbp |-> 0, slen |-> 0,
   sreads |-> 0, rserr |-> "", walloc |-> {}, wfreed |-> <<>>]

\* fn.Call(ctx, ...) / Memory().Read / Memory().Write: the call is in progress
\* from here until GuestReturn
CallGuest(t, fn, arg, ret) ==
  [t EXCEPT !.pc = "call", !.fn = fn, !.arg = arg, !.ret = ret,
            !.r = OkRes(0), !.called = TRUE,
            !.wfrees = IF t.wblock # 0 /\ fn = "free" /\ arg = t.wblock
                         THEN @ + 1 ELSE @,
            !.wuse = @ \/ (t.wblock # 0 /\ fn # "free"),
            !.frees = IF fn = "free" THEN @ + 1 ELSE @,
            !.sreads = IF fn = "Memory.ReadString" THEN @ + 1 ELSE @,
            !.wfreed = IF fn = "free" /\ arg \in t.walloc
                         THEN Append(@, arg) ELSE @]

\* a return statement: the deferred calls run before the caller gets `out`
Ret(t, out) ==
  [t EXCEPT !.pc = "unwind", !.out = out, !.r = OkRes(0), !.k = "",
            !.urlPtr = 0, !.wptr = 0]
RetErr(t, e) == Ret(t, [kind |-> "val", err |-> e, h |-> 0, v |-> 0])
RetVal(t, v) == Ret(t, [kind |-> "val", err |-> "nil", h |-> 0, v |-> v])
Panic(t) == Ret(t, [kind |-> "panic", err |-> "nil", h |-> 0, v |-> 0])
\* log.Panicf("failed to instantiate ...") / panic("failed to compile ...")
PanicInit(t) == Ret(t, [kind |-> "panic", err |-> "init", h |-> 0, v |-> 0])

\* Between the return of one guest call and the start of the next (or the
\* return to its caller) a goroutine runs host code only.  Those stretches
\* are run without interleaving: a goroutine starts an operation, and a
\* guest call returns, only when every goroutine is idle or inside a guest
\* call.  What the stretches share with other goroutines (the cpointer
\* check in free against its clearing, the mutex) is still split over
\* separate steps by the guest calls in between.  The one-time
\* initialization (creating the runtime, compiling or instantiating the
\* module) takes as long as a guest call, and so does waiting for it.
Quiet ==
  \A g \in Threads : th[g].pc \in {"idle", "lock", "call", "init", "waitInit"}

InCall(g) == th[g].pc = "call"
Busy(g) == th[g].pc # "idle"

\* wasmModule.ExportedFunction(name) # nil; Parser.getFunction(name) # nil
\* (a cached entry is always an exported function)
Has(name) == name \in exports

\* Parser.getFunction memoizes the names it resolved; the global design keeps
\* no cache.  What getFunction returns does not depend on the cache (Has), so
\* the cache contents are followed only under design "PC"; under "P" and "G"
\* the variable stays as it is.  An entry binds a name to the function
\* handle a lookup returned; handles are numbered by lookup.
Cached(i, name) == {e \in funcCache[i] : e.name = name}
Looked(d, i, names) ==
  funcCache' = IF d = "PC"
               THEN [funcCache EXCEPT ![i] =
                       @ \cup {[name |-> n, fn |-> 1] :
                                 n \in {x \in names \cap exports :
                                          Cached(i, x) = {}}}]
               ELSE funcCache

\* a public operation that never unlocks when it returns an error or panics
Release_on_success(d, g) ==
  wasmMutex' = IF d = "G" /\ g \in G /\ th[g].out.kind = "val"
                  /\ th[g].out.err = "nil"
               THEN 0 ELSE wasmMutex

\* defer wasmMutex.Unlock() of every public operation of the global design
Release(d, g) ==
  wasmMutex' = IF d = "G" /\ g \in G THEN 0 ELSE wasmMutex

\* E: the export sets the module may have; parsers: how many Parsers the
\* run creates at most
InitState(E, parsers) ==
  /\ exports \in E
  /\ initOnce = "new"
  /\ wasmModule = "nil"
  /\ wasmMutex = 0
  /\ nh = 0
  /\ cpointer = [h \in Handles |-> 0]
  /\ finalizer = [h \in Handles |-> FALSE]
  /\ reach = [h \in Handles |-> FALSE]
  /\ objs = [i \in Insts |-> {}]
  /\ th = [g \in Threads |-> IdleT]
  /\ adaFreeCalls = [h \in Handles |-> 0]
  /\ freed = [h \in Handles |-> FALSE]
  /\ reclaimed = [h \in Handles |-> FALSE]
  /\ compiledModule = "nil"
  /\ pmod = [i \in Insts |-> IF i <= parsers THEN "none" ELSE "off"]
  /\ funcCache = [i \in Insts |-> {}]
  /\ hparser = [h \in Handles |-> 0]
  /\ users = [i \in Insts |-> {}]
  /\ initRuns = 0
  /\ cacheMutex = [i \in Insts |-> 0]
  /\ lookups = [i \in Insts |-> [n \in ExportNames |-> 0]]
  /\ gtext = [i \in Insts |-> [p \in Ptrs |-> 0]]
  /\ plife = [i \in Insts |->
               [held |-> TRUE, fin |-> TRUE, closes |-> 0, releases |-> 0]]

\* ----------------------------------------------- 32-bit words and bytes
\* A uint32 is kept as <<high, low>> 16-bit halves and an int length as
\* <<l2, l1, l0>> 16-bit limbs (most significant first), so that no value
\* computed exceeds 2^31.
Half == 65536
ByteVals == {0, 1, 128, 255}
LimbVals == {0, 1, 2, 255, 256, 65535}
ZeroWord == <<0, 0>>
ZeroLen == <<0, 0, 0>>
ZeroBytes == [i \in 0..7 |-> 0]

RECURSIVE Or16(_, _)
Or16(a, b) ==
  IF a = 0 THEN b
  ELSE IF b = 0 THEN a
  ELSE (IF a % 2 = 1 \/ b % 2 = 1 THEN 1 ELSE 0) + 2 * Or16(a \div 2, b \div 2)
\* x | y on uint32
Or32(x, y) == <<Or16(x[1], y[1]), Or16(x[2], y[2])>>

RECURSIVE Pow2(_)
Pow2(n) == IF n = 0 THEN 1 ELSE 2 * Pow2(n - 1)
\* x << n on uint32, n in 0..31: the bits shifted past bit 31 are lost
Shl32(x, n) ==
  IF n >= 16 THEN <<(x[2] * Pow2(n - 16)) % Half, 0>>
  ELSE <<(x[1] * Pow2(n) + (x[2] * Pow2(n)) \div Half) % Half,
         (x[2] * Pow2(n)) % Half>>

\* a conversion that takes the byte for a signed one and extends its sign
ByteToU32_signed(b) == IF b >= 128 THEN <<Half - 1, Half - 256 + b>> ELSE <<0, b>>

\* uint32(resultBytes[i]): a byte is unsigned, the upper 24 bits are 0
ByteToU32(b) == <<0, b % 256>>

\* uint32(b[k]) | uint32(b[k+1])<<8 | uint32(b[k+2])<<16 | uint32(b[k+3])<<24
LittleEndian32(b, k) ==
  Or32(Or32(Or32(ByteToU32(b[k]), Shl32(ByteToU32(b[k + 1]), 8)),
            Shl32(ByteToU32(b[k + 2]), 16)),
       Shl32(ByteToU32(b[k + 3]), 24))

\* a conversion to a 16-bit size
LenToU32_short(n) == <<0, n[3]>>

\* uint32(len(s)): the low 32 bits of the length
LenToU32(n) == <<n[2], n[3]>>
\* uint64(len(s)), as four limbs: a length is not negative, and is below
\* 2^48 here
LenToU64(n) == <<0>> \o n
\* len([]byte(s)): the bytes handed to Memory().Write are those of s
ByteCount(n) == n

ConvIdle ==
  [pc |-> "start", resultBytes |-> ZeroBytes, bufferPtr |-> ZeroWord,
   length |-> ZeroWord, len |-> ZeroLen, mallocSize |-> ZeroWord,
   written |-> ZeroLen, lenArg |-> <<0>> \o ZeroLen]

InitWith(E) ==
  /\ conv = ConvIdle
  /\ InitState(E, 1)

\* readAdaString decoding the 8 bytes it read
readAdaString_decode ==
  /\ conv.pc = "bytes"
  /\ conv' = [conv EXCEPT !.pc = "decoded",
                          !.bufferPtr = LittleEndian32(conv.resultBytes, 0),
                          !.length = LittleEndian32(conv.resultBytes, 4)]
  /\ UNCHANGED <<exports, initRuns, cacheMutex, lookups, gtext, plife, gvars,
                 pvars, hvars, heap, ghost, funcCache, th>>

\* writeStringToWasm(s) and the export call that follows it, for a non-empty
\* s: wasmMalloc(uint32(len(s))), Memory().Write(ptr, []byte(s)),
\* fn.Call(ctx, ptr, uint64(len(s)))
writeStringToWasm_sizes ==
  /\ conv.pc = "string"
  /\ conv' = [conv EXCEPT !.pc = "written",
                          !.mallocSize = LenToU32(conv.len),
                          !.written = ByteCount(conv.len),
                          !.lenArg = LenToU64(conv.len)]
  /\ UNCHANGED <<exports, initRuns, cacheMutex, lookups, gtext, plife, gvars,
                 pvars, hvars, heap, ghost, funcCache, th>>

\* the inputs of the conversions: any 8 bytes; any non-empty string length
InitN ==
  /\ InitState({ExportNames}, 1)
  /\ \/ \E b \in [0..7 -> ByteVals] :
          conv = [ConvIdle EXCEPT !.pc = "bytes", !.resultBytes = b]
     \/ \E l2 \in {0, 1}, l1 \in LimbVals, l0 \in LimbVals :
          /\ <<l2, l1, l0>> # ZeroLen
          /\ conv = [ConvIdle EXCEPT !.pc = "string", !.len = <<l2, l1, l0>>]

NextN ==
  \/ readAdaString_decode
  \/ writeStringToWasm_sizes

SpecN == InitN /\ [][NextN]_vars


\* the code provides for a module that lacks an export
Init == InitWith(ExportSets)

\* the embedded module is linked with --export-all: every export is there
InitP == InitWith({ExportNames})

\* ------------------------------------------------------------- the guest
\* What a call in progress can come back with.  err is a trap reported by
\* wazero.  The allocator never hands out an address that holds a live
\* object or a block some operation still holds; it may return 0.  The host
\* only compares addresses with 0 and with each other, so the addresses are
\* interchangeable and the allocator is taken to hand out the lowest free one.
Held(i) ==
  UNION {({th[g].urlPtr, th[g].wptr} \cup {th[g].defers[k] : k \in DOMAIN th[g].defers})
           : g \in {x \in Threads : th[x].inst = i}}
Avail(i) == Ptrs \ (objs[i] \cup Held(i))
Fresh(i) == IF Avail(i) = {} THEN {}
            ELSE {CHOOSE p \in Avail(i) : \A q \in Avail(i) : p <= q}

\* Parser.Close closed the instance: wazero fails every call into a closed
\* module with an error, and its memory is no longer readable or writable
Closed(i) == i \in Insts /\ pmod[i] = "closed"
ClosedOutcomes(t) == IF t.fn = "Memory.Write" THEN {OkRes(0)} ELSE {ErrRes}

Outcomes(t) ==
  IF Closed(t.inst) THEN ClosedOutcomes(t) ELSE
  CASE t.fn \in {"malloc", "ada_parse", "ada_parse_with_base"} ->
         {ErrRes, OkRes(0)} \cup {OkRes(p) : p \in Fresh(t.inst)}
    [] t.fn \in {"free", "ada_free"} \cup Getters \cup VoidSetters ->
         {ErrRes, OkRes(0)}
    [] t.fn \in Predicates \cup BoolSetters ->
         {ErrRes, OkRes(0), OkRes(1)}
    [] t.fn = "Memory.Write" ->
         {OkRes(0), OkRes(1)}
    [] t.fn = "Memory.ReadStruct" ->
         {ErrRes} \cup {[err |-> FALSE, val |-> bp, val2 |-> n] :
                           bp \in {0, 1}, n \in Lens}
    [] t.fn = "Memory.ReadString" ->
         {ErrRes, OkRes(t.arg)}

\* How a call that came back went wrong, if it did: "callerr" (the call
\* reported an error, a memory read or write failed), "null" (malloc
\* returned 0), "zero" (the guest rejected the input: a parse export
\* returned 0, ada_is_valid answered 0 to New).  The deferred frees and
\* ada_free are not looked at.
Cause(t, res) ==
  CASE t.fn \in {"free", "ada_free"} -> ""
    [] t.fn = "Memory.Write" -> IF res.val = 1 THEN "" ELSE "callerr"
    [] res.err -> "callerr"
    [] t.fn = "malloc" /\ res.val = 0 -> "null"
    [] t.fn \in {"ada_parse", "ada_parse_with_base"} /\ res.val = 0 -> "zero"
    [] t.fn \in Predicates /\ t.op \in {"New", "NewWithBase"} /\ res.val = 0 ->
         "zero"
    [] OTHER -> ""

\* ---- the guest with its answers followed (the URL library in ada.wasm)
\* Strings are 0..MaxStr: 0 is "", 1 and 2 are two URLs in the form the
\* library serializes them ("https://a/", "https://b/"), 3 is another
\* spelling of the first ("HTTPS://A"), 4 is not a URL ("not-a-valid-url").
IsUrl(s) == s \in {1, 2, 3}
\* the href the library gives a URL
Norm(s) == IF s = 3 THEN 1 ELSE s
\* ada_parse: the href of the object (0 when the input is rejected)
Parse(s) == IF IsUrl(s) THEN Norm(s) ELSE 0
\* ada_parse_with_base: an absolute input stands for itself, any other
\* non-empty input is resolved against the base and gives some URL
ParseWithBase(s, b) ==
  IF IsUrl(s) THEN {Norm(s)}
  ELSE IF IsUrl(b) /\ s # 0 THEN {1, 2}
  ELSE {0}

\* the object a call is about: a live object of the instance, or not (a
\* cleared or stale pointer, on which the library's answer is anything)
IsObj(i, p) == p \in objs[i]
TextOf(i, p) == IF IsObj(i, p) THEN gtext[i][p] ELSE 0

\* What the call in progress can come back with, as <<result, href of the
\* object afterwards>>.  A failed call (trap) changes nothing.
TrackedOutcomes(t) ==
  LET i == t.inst
      same(S) == {<<r, 0>> : r \in S}
      cur == TextOf(i, t.arg)
  IN CASE t.fn \in {"ada_parse", "ada_parse_with_base"} ->
            same({ErrRes, OkRes(0)})
              \cup {<<OkRes(p), x>> :
                      p \in Fresh(i),
                      x \in IF t.fn = "ada_parse" THEN {Parse(t.ulen)}
                             ELSE ParseWithBase(t.ulen, t.blen)}
       [] t.fn \in Predicates ->
            IF IsObj(i, t.arg)
              THEN {<<ErrRes, cur>>, <<OkRes(IF cur # 0 THEN 1 ELSE 0), cur>>}
            ELSE same({ErrRes, OkRes(0), OkRes(1)})
       [] t.fn \in BoolSetters ->
            IF IsObj(i, t.arg)
              THEN {<<ErrRes, cur>>,
                    IF cur # 0 /\ IsUrl(t.ulen)
                      THEN <<OkRes(1), Norm(t.ulen)>>
                    ELSE <<OkRes(0), cur>>}
            ELSE same({ErrRes, OkRes(0), OkRes(1)})
       [] t.fn \in VoidSetters ->
            IF IsObj(i, t.arg) /\ cur # 0
              THEN {<<ErrRes, cur>>} \cup {<<OkRes(0), x>> : x \in {1, 2}}
            ELSE same({ErrRes, OkRes(0)})
       [] t.fn = "Memory.ReadStruct" ->
            IF IsObj(i, t.obj)
              THEN {<<ErrRes, 0>>,
                    <<[err |-> FALSE, val |-> IF TextOf(i, t.obj) # 0 THEN 1 ELSE 0,
                       val2 |-> TextOf(i, t.obj)], 0>>}
            ELSE same({ErrRes} \cup {[err |-> FALSE, val |-> bp, val2 |-> n] :
                                        bp \in {0, 1}, n \in Strs})
       [] OTHER -> same(Outcomes(t))

\* the hrefs of the instance after the call came back with o
TextAfter(t, o) ==
  LET i == t.inst
      res == o[1]
  IN IF t.fn \in {"ada_parse", "ada_parse_with_base"} /\ ~res.err /\ res.val # 0
       THEN [gtext EXCEPT ![i][res.val] = o[2]]
     ELSE IF t.fn = "ada_free" /\ t.arg \in Ptrs
       THEN [gtext EXCEPT ![i][t.arg] = 0]
     ELSE IF t.fn \in BoolSetters \cup VoidSetters /\ IsObj(i, t.arg)
       THEN [gtext EXCEPT ![i][t.arg] = o[2]]
     ELSE gtext

\* a guest call returns; with track the guest's answers are those of the
\* URL library, without it any answer of the right type
GuestStep(g, track) ==
  /\ Quiet
  /\ th[g].pc = "call"
  /\ LET t == th[g]
         i == t.inst
     IN \E o \in IF track THEN TrackedOutcomes(t)
                  ELSE {<<r, 0>> : r \in Outcomes(t)} :
          LET res == o[1] IN
          /\ gtext' = IF track THEN TextAfter(t, o) ELSE gtext
          /\ th' = [th EXCEPT ![g] =
                      [t EXCEPT !.pc = t.ret, !.ret = "", !.fn = "", !.arg = 0,
                                !.r = res,
                                !.cause = IF @ = "" THEN Cause(t, res) ELSE @]]
          /\ objs' = IF t.fn \in {"ada_parse", "ada_parse_with_base"}
                        /\ ~res.err /\ res.val # 0
                       THEN [objs EXCEPT ![i] = @ \cup {res.val}]
                     ELSE IF t.fn = "ada_free"
                       THEN [objs EXCEPT ![i] = @ \ {t.arg}]
                     ELSE objs
  /\ UNCHANGED <<exports, conv, plife, initRuns, cacheMutex, lookups, gvars, pvars,
                 hvars, ghost, funcCache>>

GuestReturn(g) == GuestStep(g, FALSE)
GuestReturnD(g) == GuestStep(g, TRUE)

\* ------------------------------------------------- steps of both designs
\* A step of goroutine g that touches only its own locals (and, in the
\* per-Parser design, the function cache through getFunction).
Local(d, g, t2, names) ==
  /\ th' = [th EXCEPT ![g] = t2]
  /\ Looked(d, th[g].inst, names)
  /\ UNCHANGED <<env, gvars, pvars, hvars, heap, ghost>>

\* a writeStringToWasm that allocates for the empty string too
WriteStringStart_allocates(t, len, k) ==
  IF ~Has("malloc") THEN [t EXCEPT !.pc = k, !.r = ErrRes]
  ELSE [CallGuest(t, "malloc", len, "ws_malloced") EXCEPT !.k = k]

\* writeStringToWasm(s): empty input returns (0, nil) without allocating;
\* otherwise wasmMalloc(len(s)) is called.  k is where the caller goes on.
WriteStringStart(t, len, k) ==
  IF len = 0 THEN [t EXCEPT !.pc = k, !.r = OkRes(0)]
  ELSE IF ~Has("malloc") THEN [t EXCEPT !.pc = k, !.r = ErrRes]
  ELSE [CallGuest(t, "malloc", len, "ws_malloced") EXCEPT !.k = k]
WriteStringNames(len) == IF len = 0 THEN {} ELSE {"malloc"}

\* wasmMalloc returned: on error give up, else Memory().Write(ptr, bytes)
writeStringToWasm_malloced(d, g) ==
  /\ th[g].pc = "ws_malloced"
  /\ LET t == th[g]
     IN Local(d, g,
              IF t.r.err THEN [t EXCEPT !.pc = t.k, !.k = "", !.r = ErrRes]
              ELSE [CallGuest(t, "Memory.Write", t.r.val, "ws_written")
                      EXCEPT !.wptr = t.r.val,
                             !.walloc = IF t.r.val # 0 THEN @ \cup {t.r.val}
                                        ELSE @],
              {})

\* a writeStringToWasm that leaves the block of a failed write allocated
writeStringToWasm_written_leaks(d, g) ==
  /\ th[g].pc = "ws_written"
  /\ LET t == th[g]
     IN Local(d, g,
              IF t.r.val = 1
                THEN [t EXCEPT !.pc = t.k, !.k = "", !.r = OkRes(t.wptr),
                               !.wptr = 0]
              ELSE [t EXCEPT !.pc = t.k, !.k = "", !.r = ErrRes, !.wptr = 0,
                             !.wblock = t.wptr],
              IF t.r.val = 1 THEN {} ELSE {"free"})

\* the write came back: ok gives (ptr, nil); a failed write frees the block
\* just allocated and gives (0, err)
writeStringToWasm_written(d, g) ==
  /\ th[g].pc = "ws_written"
  /\ LET t == th[g]
     IN Local(d, g,
              IF t.r.val = 1
                THEN [t EXCEPT !.pc = t.k, !.k = "", !.r = OkRes(t.wptr),
                               !.wptr = 0]
              ELSE IF Has("free")
                THEN [CallGuest([t EXCEPT !.wblock = t.wptr], "free", t.wptr,
                                "ws_freed") EXCEPT !.wptr = 0]
              ELSE [t EXCEPT !.pc = t.k, !.k = "", !.r = ErrRes, !.wptr = 0,
                             !.wblock = t.wptr],
              IF t.r.val = 1 THEN {} ELSE {"free"})

writeStringToWasm_freed(d, g) ==
  /\ th[g].pc = "ws_freed"
  /\ Local(d, g, [th[g] EXCEPT !.pc = th[g].k, !.k = "", !.r = ErrRes], {})

\* New after writeStringToWasm(urlstring): defer wasmFree(urlPtr), look up
\* ada_parse and call it
New_url(d, g) ==
  /\ th[g].pc = "New_url"
  /\ LET t == th[g]
         t1 == [t EXCEPT !.urlPtr = t.r.val, !.defers = <<t.r.val>>]
     IN Local(d, g,
              IF t.r.err THEN RetErr(t, "other")
              ELSE IF ~Has("ada_parse") THEN RetErr(t1, "other")
              ELSE CallGuest(t1, "ada_parse", t1.urlPtr, "New_parsed"),
              IF t.r.err THEN {} ELSE {"ada_parse"})

\* a NewWithBase that registers no deferred free for the url buffer
NewWithBase_url_no_defer(d, g) ==
  /\ th[g].pc = "NewWithBase_url"
  /\ LET t == th[g]
         t1 == [t EXCEPT !.urlPtr = t.r.val]
     IN Local(d, g,
              IF t.r.err THEN RetErr(t, "other")
              ELSE WriteStringStart(t1, t.blen, "NewWithBase_base"),
              IF t.r.err THEN {} ELSE WriteStringNames(t.blen))

\* NewWithBase after writeStringToWasm(urlstring): defer wasmFree(urlPtr),
\* then writeStringToWasm(basestring)
NewWithBase_url(d, g) ==
  /\ th[g].pc = "NewWithBase_url"
  /\ LET t == th[g]
         t1 == [t EXCEPT !.urlPtr = t.r.val, !.defers = <<t.r.val>>]
     IN Local(d, g,
              IF t.r.err THEN RetErr(t, "other")
              ELSE WriteStringStart(t1, t.blen, "NewWithBase_base"),
              IF t.r.err THEN {} ELSE WriteStringNames(t.blen))

\* NewWithBase after writeStringToWasm(basestring): defer wasmFree(basePtr),
\* look up ada_parse_with_base and call it
NewWithBase_base(d, g) ==
  /\ th[g].pc = "NewWithBase_base"
  /\ LET t == th[g]
         t1 == [t EXCEPT !.defers = <<t.r.val>> \o @]
     IN Local(d, g,
              IF t.r.err THEN RetErr(t, "other")
              ELSE IF ~Has("ada_parse_with_base") THEN RetErr(t1, "other")
              ELSE CallGuest(t1, "ada_parse_with_base", t1.urlPtr, "New_parsed"),
              IF t.r.err THEN {} ELSE {"ada_parse_with_base"})

\* a not-valid branch that leaves the object to the guest
InvalidBranch_no_free(t) == RetErr(t, "ErrInvalidUrl")

\* the not-valid branch of New / NewWithBase: ada_free the object if the
\* export exists, return ErrInvalidUrl
InvalidBranch(t) ==
  IF Has("ada_free")
    THEN [CallGuest(t, "ada_free", t.obj, "New_freed") EXCEPT !.nfree = @ + 1]
  ELSE RetErr(t, "ErrInvalidUrl")

\* the parse export returned: error, null pointer, or an object whose
\* validity is asked with callAdaBoolFunction("ada_is_valid", urlObjPtr)
New_parsed(d, g) ==
  /\ th[g].pc = "New_parsed"
  /\ LET t == th[g]
         t1 == [t EXCEPT !.obj = t.r.val]
     IN Local(d, g,
              IF t.r.err THEN RetErr(t, "other")
              ELSE IF t.r.val = 0 THEN RetErr(t, "ErrInvalidUrl")
              ELSE IF ~Has("ada_is_valid")
                THEN InvalidBranch([t1 EXCEPT !.vstate = "fail"])
              ELSE CallGuest(t1, "ada_is_valid", t1.obj, "New_valid"),
              IF t.r.err \/ t.r.val = 0 THEN {}
              ELSE IF ~Has("ada_is_valid") THEN {"ada_is_valid", "ada_free"}
              ELSE {"ada_is_valid"})

\* a callAdaBoolFunction that takes a failed call for true
BoolResult_err_true(r) == r.err \/ r.val # 0

\* a callAdaBoolFunction that takes every completed call for true
BoolResult_ignores_word(r) == ~r.err

\* a callAdaBoolFunction that answers the opposite of the result word
BoolResult_inverted(r) == ~r.err /\ r.val = 0

\* callAdaBoolFunction: a failed call is false, else results[0] != 0
BoolResult(r) == ~r.err /\ r.val # 0

\* ada_is_valid returned: a valid object becomes a handle with a finalizer,
\* an invalid one takes the not-valid branch
New_valid(d, g) ==
  /\ th[g].pc = "New_valid"
  /\ LET t == [th[g] EXCEPT !.vstate = IF ~th[g].r.err /\ th[g].r.val # 0
                                          THEN "ok" ELSE "fail"]
         h == nh + 1
     IN IF BoolResult(t.r)
        THEN /\ th' = [th EXCEPT ![g] =
                         Ret(t, [kind |-> "val", err |-> "nil", h |-> h, v |-> 0])]
             /\ nh' = h
             /\ cpointer' = [cpointer EXCEPT ![h] = t.obj]
             /\ finalizer' = [finalizer EXCEPT ![h] = TRUE]
             /\ reach' = [reach EXCEPT ![h] = TRUE]
             /\ hparser' = [hparser EXCEPT ![h] = IF d = "P" THEN t.inst ELSE 0]
             /\ UNCHANGED <<env, gvars, pvars, heap, ghost, funcCache>>
        ELSE Local(d, g, InvalidBranch(t), {"ada_free"})

\* ada_free of the invalid object returned (its result is ignored)
New_freed(d, g) ==
  /\ th[g].pc = "New_freed"
  /\ Local(d, g, RetErr(th[g], "ErrInvalidUrl"), {})

\* a free that does not look at the pointer first
free_needed_always(h) == TRUE

\* free(u) / (*Url).ada_free: `if u.cpointer != 0`
free_needed(h) == cpointer[h] # 0

\* a free that clears the pointer only next to the ada_free call
free_clear_if_export(h) ==
  IF Has("ada_free") THEN [cpointer EXCEPT ![h] = 0] ELSE cpointer

\* a free that forgets to clear the pointer
free_clear_never(h) == cpointer

\* free(u) / (*Url).ada_free: `u.cpointer = 0`
free_clear(h) == [cpointer EXCEPT ![h] = 0]

\* a free that clears the pointer and leaves the object to the guest
freeBody_no_call(d, g, t, h) ==
  /\ Looked(d, t.inst, IF free_needed(h) THEN {"ada_free"} ELSE {})
  /\ th' = [th EXCEPT ![g] = RetVal(t, 0)]
  /\ cpointer' = IF free_needed(h) THEN free_clear(h) ELSE cpointer
  /\ UNCHANGED adaFreeCalls

\* free(u) / (*Url).ada_free up to the ada_free call: nothing to do on a
\* cleared pointer; with the export missing the pointer is cleared at once
freeBody(d, g, t, h) ==
  /\ Looked(d, t.inst, IF free_needed(h) THEN {"ada_free"} ELSE {})
  /\ IF free_needed(h) /\ Has("ada_free")
     THEN /\ th' = [th EXCEPT ![g] =
                      CallGuest(t, "ada_free", cpointer[h], "free_called")]
          /\ adaFreeCalls' = [adaFreeCalls EXCEPT ![h] = @ + 1]
          /\ UNCHANGED cpointer
     ELSE /\ th' = [th EXCEPT ![g] = RetVal(t, 0)]
          /\ cpointer' = IF free_needed(h) THEN free_clear(h) ELSE cpointer
          /\ UNCHANGED adaFreeCalls

\* adaFree.Call returned (result ignored): clear the pointer
free_called(d, g) ==
  /\ th[g].pc = "free_called"
  /\ th' = [th EXCEPT ![g] = RetVal(th[g], 0)]
  /\ cpointer' = free_clear(th[g].h)
  /\ UNCHANGED <<env, gvars, pvars, nh, finalizer, reach, hparser, heap,
                 ghost, funcCache>>

\* callAdaBoolFunction after fn.Call
callAdaBoolFunction_called(d, g) ==
  /\ th[g].pc = "bool_called"
  /\ LET t == [th[g] EXCEPT !.vstate = IF ~th[g].r.err /\ th[g].r.val # 0
                                          THEN "ok" ELSE "fail"]
     IN Local(d, g, RetVal(t, IF BoolResult(t.r) THEN 1 ELSE 0), {})

\* `return s, nil` / `return "", err` of readAdaString; its caller drops
\* the error and returns the string
RetString(t, v, e) == [RetVal(t, v) EXCEPT !.rserr = e]

\* readAdaString(fn, urlPtr) from its first statement: wasmMalloc(8)
ReadAdaStringStart(t) ==
  IF ~Has("malloc") THEN RetString(t, 0, "err")
  ELSE CallGuest(t, "malloc", ScratchSize, "rs_malloced")

\* a readAdaString that does not defer the release of its scratch buffer
readAdaString_malloced_no_defer(d, g) ==
  /\ th[g].pc = "rs_malloced"
  /\ LET t == th[g]
     IN Local(d, g,
              IF t.r.err THEN RetString(t, 0, "err")
              ELSE CallGuest([t EXCEPT !.wptr = t.r.val, !.salloc = TRUE],
                             t.name, t.obj, "rs_called"),
              {})

\* readAdaString after wasmMalloc(8): defer wasmFree(resultPtr), call the
\* getter with (resultPtr, urlPtr)
readAdaString_malloced(d, g) ==
  /\ th[g].pc = "rs_malloced"
  /\ LET t == th[g]
     IN Local(d, g,
              IF t.r.err THEN RetString(t, 0, "err")
              ELSE CallGuest([t EXCEPT !.wptr = t.r.val, !.defers = <<t.r.val>>,
                                       !.salloc = TRUE],
                             t.name, t.obj, "rs_called"),
              {})

\* the getter returned: read the 8-byte struct at resultPtr
readAdaString_called(d, g) ==
  /\ th[g].pc = "rs_called"
  /\ LET t == th[g]
     IN Local(d, g,
              IF t.r.err THEN RetString(t, 0, "err")
              ELSE CallGuest(t, "Memory.ReadStruct", t.wptr, "rs_struct"),
              {})

\* a test that looks at the buffer pointer only
NoData_pointer_only(bufferPtr, length) == bufferPtr = 0

\* `if bufferPtr == 0 || length == 0`
NoData(bufferPtr, length) == bufferPtr = 0 \/ length = 0

\* the struct was read: a zero bufferPtr or length is the empty string,
\* otherwise `length` bytes are read at bufferPtr
readAdaString_struct(d, g) ==
  /\ th[g].pc = "rs_struct"
  /\ LET t == th[g]
         t1 == [t EXCEPT !.sdec = TRUE, !.sbp = t.r.val, !.slen = t.r.val2]
     IN Local(d, g,
              IF t.r.err THEN RetString(t, 0, "err")
              ELSE IF NoData(t.r.val, t.r.val2) THEN RetString(t1, 0, "nil")
              ELSE CallGuest(t1, "Memory.ReadString", t.r.val2, "rs_string"),
              {})

\* a readAdaString that drops the bytes it read
readAdaString_string_dropped(d, g) ==
  /\ th[g].pc = "rs_string"
  /\ Local(d, g, RetVal(th[g], 0), {})

\* the string bytes were read (the result is its length; 0 is "")
readAdaString_string(d, g) ==
  /\ th[g].pc = "rs_string"
  /\ LET t == th[g]
     IN Local(d, g,
              IF t.r.err THEN RetString(t, 0, "err")
              ELSE RetString(t, t.r.val, "nil"),
              {})

\* a setter after writeStringToWasm(value): defer wasmFree(valuePtr), call
\* the export with (u.cpointer, valuePtr, len(value))
setter_value(d, g) ==
  /\ th[g].pc = "setter_value"
  /\ LET t == th[g]
     IN Local(d, g,
              IF t.r.err THEN RetVal(t, 0)
              ELSE CallGuest([t EXCEPT !.defers = <<t.r.val>>,
                                       !.obj = cpointer[t.h],
                                       !.before = TextOf(t.inst, cpointer[t.h])],
                             t.name, cpointer[t.h], "setter_called"),
              {})

\* the setter export returned: the bool setters report results[0] != 0
setter_called(d, g) ==
  /\ th[g].pc = "setter_called"
  /\ LET t == [th[g] EXCEPT !.vstate = IF th[g].r.err THEN "fail"
                                          ELSE IF th[g].r.val # 0 THEN "ok"
                                          ELSE "rejected"]
     IN Local(d, g,
              RetVal(t, IF t.op = "SetterBool" /\ BoolResult(t.r) THEN 1 ELSE 0),
              {})

\* a function returns: its deferred wasmFree calls run last-in first-out
\* (wasmFree makes no call when the free export is missing), then, in the
\* global design, the deferred wasmMutex.Unlock()
Unwind(d, g) ==
  /\ th[g].pc = "unwind"
  /\ LET t == th[g]
         t1 == [t EXCEPT !.defers = Tail(@)]
     IN IF t.defers # <<>>
        THEN /\ Local(d, g,
                      IF Has("free")
                        THEN CallGuest(t1, "free", Head(t.defers), "unwind")
                      ELSE t1,
                      {"free"})
        ELSE /\ th' = [th EXCEPT ![g] = [t EXCEPT !.pc = "done"]]
             /\ Release(d, g)
             /\ freed' = IF t.op = "Free"
                             THEN [freed EXCEPT ![t.h] = TRUE]
                             ELSE freed
             /\ reclaimed' = IF t.op = "finalizer"
                             THEN [reclaimed EXCEPT ![t.h] = TRUE]
                             ELSE reclaimed
             /\ UNCHANGED <<env, initOnce, wasmModule, pvars, hvars, heap,
                            adaFreeCalls, funcCache>>

\* the caller takes the result; the goroutine is free for its next call
Return(g) ==
  /\ th[g].pc = "done"
  /\ th' = [th EXCEPT ![g] = IdleT]
  /\ UNCHANGED <<env, gvars, pvars, hvars, heap, ghost, funcCache>>

\* `return u, nil` with the deferred calls still to run: the handle exists
\* but its constructor has not handed it to the caller yet
Building(h) ==
  \E g \in G : /\ th[g].op \in {"New", "NewWithBase"}
               /\ th[g].pc \notin {"idle", "done"}
               /\ th[g].out.h = h

\* the caller lets go of its last reference to a handle it is not using
Drop(h) ==
  /\ Quiet
  /\ h <= nh /\ reach[h] /\ ~Building(h)
  /\ \A g \in G : ~(Busy(g) /\ th[g].h = h)
  /\ reach' = [reach EXCEPT ![h] = FALSE]
  /\ UNCHANGED <<env, gvars, pvars, nh, cpointer, finalizer, hparser, heap,
                 ghost, funcCache, th>>

\* operations on a handle that all go to the first Parser
parserOf_first(h) == 1

\* u.parser: the Parser whose instance the operations on a handle call
parserOf(h) == hparser[h]

\* the garbage collector found an unreachable handle with a finalizer: the
\* finalizer goroutine runs it (free / (*Url).ada_free), taking no lock
Finalize(d, h) ==
  /\ Quiet
  /\ th[Fin].pc = "idle"
  /\ h <= nh /\ ~reach[h] /\ finalizer[h]
  /\ finalizer' = [finalizer EXCEPT ![h] = FALSE]
  /\ freeBody(d, Fin,
              [IdleT EXCEPT !.op = "finalizer", !.h = h,
                            !.inst = IF d = "P" THEN parserOf(h) ELSE 1], h)
  /\ UNCHANGED <<env, gvars, pvars, nh, reach, hparser, heap, freed,
                 reclaimed>>

\* cap on the run: handle slots left for a construction
CanCreate ==
  nh + Cardinality({x \in G : th[x].op \in {"New", "NewWithBase"}}) < MaxHandles
Live(h) == h <= nh /\ reach[h] /\ ~Building(h)
Freed(h) == freed[h] \/ reclaimed[h]

\* --------------------------------- global design (src/goadawasm.go)
\* wasmMutex.Lock() as the first statement of a public operation
\* (the caller comes from its own code or was blocked in Lock, see
\* Lock_blocked)
Lock(g) ==
  /\ Quiet /\ th[g].pc \in {"idle", "lock"}
  /\ wasmMutex = 0 /\ wasmMutex' = g

\* a one-time initialization with no sync.Once: whoever finds it not done
\* runs the body
ensureInit_unguarded ==
  IF initOnce = "done" THEN "inited" ELSE "init"

\* ensureWasmInit() / ensureGlobalInit(): initOnce.Do(f).  Where the caller
\* goes: the first caller runs the body, a caller arriving while the body
\* runs blocks until it has returned, a later one passes.
ensureInit ==
  IF initOnce = "done" THEN "inited"
  ELSE IF initOnce = "new" THEN "init"
  ELSE "waitInit"

\* what initOnce.Do does to the Once and to the count of body runs
Once_Do ==
  /\ initOnce' = IF ensureInit = "init" THEN "running" ELSE initOnce
  /\ initRuns' = IF ensureInit = "init" THEN initRuns + 1 ELSE initRuns

\* initWasm / initGlobalWasm: the module is instantiated / compiled ("ok"),
\* or the body panics and leaves the variable nil
InitOutcomes == {"ok", "nil"}

\* an initialization whose failure leaves the Once as it was before the call
initWasm_retried(g) ==
  /\ Quiet
  /\ th[g].pc = "init"
  /\ \E m \in InitOutcomes :
       /\ wasmModule' = m
       /\ th' = [th EXCEPT ![g] = IF m = "nil" THEN PanicInit(th[g])
                                  ELSE [th[g] EXCEPT !.pc = "inited"]]
       /\ initOnce' = IF m = "nil" THEN "new" ELSE "done"
  /\ UNCHANGED <<env, wasmMutex, pvars, hvars, heap, ghost, funcCache>>

\* initWasm(): the body run by the first caller returns or panics; sync.Once
\* is done either way
initWasm(g) ==
  /\ Quiet
  /\ th[g].pc = "init"
  /\ \E m \in InitOutcomes :
       /\ wasmModule' = m
       /\ th' = [th EXCEPT ![g] = IF m = "nil" THEN PanicInit(th[g])
                                  ELSE [th[g] EXCEPT !.pc = "inited"]]
  /\ initOnce' = "done"
  /\ UNCHANGED <<env, wasmMutex, pvars, hvars, heap, ghost, funcCache>>

\* initOnce.Do returns in a goroutine that was blocked in it
Once_wake(g) ==
  /\ Quiet
  /\ th[g].pc = "waitInit"
  /\ initOnce = "done"
  /\ th' = [th EXCEPT ![g] = [th[g] EXCEPT !.pc = "inited", !.waited = TRUE]]
  /\ UNCHANGED <<env, gvars, pvars, hvars, heap, ghost, funcCache>>

\* len(urlstring) == 0
IsEmpty(s) == s = 0

\* New(urlstring): wasmMutex.Lock(), ensureWasmInit()
New(g, s) ==
  /\ Lock(g) /\ CanCreate
  /\ th' = [th EXCEPT ![g] =
              [IdleT EXCEPT !.op = "New", !.inst = 1, !.ulen = s,
                            !.pc = ensureInit]]
  /\ Once_Do
  /\ UNCHANGED <<exports, conv, plife, gtext, wasmModule, pvars, hvars, heap, ghost, funcCache,
                 cacheMutex, lookups>>

\* NewWithBase(urlstring, basestring): wasmMutex.Lock(), ensureWasmInit()
NewWithBase(g, s, b) ==
  /\ Lock(g) /\ CanCreate
  /\ th' = [th EXCEPT ![g] =
              [IdleT EXCEPT !.op = "NewWithBase", !.inst = 1, !.ulen = s,
                            !.blen = b, !.pc = ensureInit]]
  /\ Once_Do
  /\ UNCHANGED <<exports, conv, plife, gtext, wasmModule, pvars, hvars, heap, ghost, funcCache,
                 cacheMutex, lookups>>

\* New / NewWithBase after ensureWasmInit(): the test for an empty string,
\* then writeStringToWasm(urlstring), which dereferences wasmModule
New_inited(g) ==
  /\ th[g].pc = "inited"
  /\ th[g].op \in {"New", "NewWithBase"}
  /\ LET t == th[g]
         empty == IF t.op = "New" THEN IsEmpty(t.ulen)
                  ELSE IsEmpty(t.ulen) \/ IsEmpty(t.blen)
     IN th' = [th EXCEPT ![g] =
                 IF empty THEN RetErr(t, "ErrEmptyString")
                 ELSE IF wasmModule = "nil" THEN Panic(t)
                 ELSE WriteStringStart(t, t.ulen,
                        IF t.op = "New" THEN "New_url" ELSE "NewWithBase_url")]
  /\ UNCHANGED <<env, gvars, pvars, hvars, heap, ghost, funcCache>>

\* the locals of an operation on handle h
OnHandle(op, h, name, i) ==
  [IdleT EXCEPT !.op = op, !.h = h, !.name = name, !.inst = i,
                !.onFreed = Freed(h), !.onClosed = Closed(i)]

\* (*Url).Free: lock, runtime.SetFinalizer(u, nil), free(u)
Url_Free(g, h) ==
  /\ Lock(g) /\ Live(h)
  /\ finalizer' = [finalizer EXCEPT ![h] = FALSE]
  /\ freeBody("G", g, OnHandle("Free", h, "", 1), h)
  /\ UNCHANGED <<env, initOnce, wasmModule, pvars, nh, reach, hparser,
                 heap, freed, reclaimed>>

\* (*Url).Valid, HasPort, ...: lock, callAdaBoolFunction(name, u.cpointer)
Url_Valid(g, h, name) ==
  /\ Lock(g) /\ Live(h)
  /\ LET t0 == OnHandle("Predicate", h, name, 1)
     IN th' = [th EXCEPT ![g] =
                 IF ~Has(name) THEN RetVal(t0, 0)
                 ELSE CallGuest(t0, name, cpointer[h], "bool_called")]
  /\ UNCHANGED <<env, initOnce, wasmModule, pvars, hvars, heap, ghost,
                 funcCache>>

\* (*Url).Href, Port, ...: lock, look the getter up, readAdaString(fn, u.cpointer)
Url_Href(g, h, name) ==
  /\ Lock(g) /\ Live(h)
  /\ LET t0 == [OnHandle("Accessor", h, name, 1) EXCEPT !.obj = cpointer[h]]
     IN th' = [th EXCEPT ![g] =
                 IF ~Has(name) THEN RetVal(t0, 0) ELSE ReadAdaStringStart(t0)]
  /\ UNCHANGED <<env, initOnce, wasmModule, pvars, hvars, heap, ghost,
                 funcCache>>

\* allSetterBoolWithLock(funcName, value): lock, look the setter up,
\* writeStringToWasm(value)
allSetterBoolWithLock(g, h, name, v) ==
  /\ Lock(g) /\ Live(h)
  /\ LET t0 == [OnHandle("SetterBool", h, name, 1) EXCEPT !.ulen = v]
     IN th' = [th EXCEPT ![g] =
                 IF ~Has(name) THEN RetVal(t0, 0)
                 ELSE WriteStringStart(t0, v, "setter_value")]
  /\ UNCHANGED <<env, initOnce, wasmModule, pvars, hvars, heap, ghost,
                 funcCache>>

\* callSetterVoidWithLock(funcName, value): the same without a result
callSetterVoidWithLock(g, h, name, v) ==
  /\ Lock(g) /\ Live(h)
  /\ LET t0 == [OnHandle("SetterVoid", h, name, 1) EXCEPT !.ulen = v]
     IN th' = [th EXCEPT ![g] =
                 IF ~Has(name) THEN RetVal(t0, 0)
                 ELSE WriteStringStart(t0, v, "setter_value")]
  /\ UNCHANGED <<env, initOnce, wasmModule, pvars, hvars, heap, ghost,
                 funcCache>>

\* the steps every operation continues with, for design d
Steps(d, g) ==
  \/ writeStringToWasm_malloced(d, g)
  \/ writeStringToWasm_written(d, g)
  \/ writeStringToWasm_freed(d, g)
  \/ New_url(d, g)
  \/ NewWithBase_url(d, g)
  \/ NewWithBase_base(d, g)
  \/ New_parsed(d, g)
  \/ New_valid(d, g)
  \/ New_freed(d, g)
  \/ free_called(d, g)
  \/ callAdaBoolFunction_called(d, g)
  \/ readAdaString_malloced(d, g)
  \/ readAdaString_called(d, g)
  \/ readAdaString_struct(d, g)
  \/ readAdaString_string(d, g)
  \/ setter_value(d, g)
  \/ setter_called(d, g)
  \/ Unwind(d, g)

NextG ==
  \/ \E g \in G, s \in Lens : New(g, s)
  \/ \E g \in G, s \in Lens, b \in Lens : NewWithBase(g, s, b)
  \/ \E g \in G, h \in Handles : Url_Free(g, h)
  \/ \E g \in G, h \in Handles, n \in Predicates : Url_Valid(g, h, n)
  \/ \E g \in G, h \in Handles, n \in Getters : Url_Href(g, h, n)
  \/ \E g \in G, h \in Handles, n \in BoolSetters, v \in Lens :
       allSetterBoolWithLock(g, h, n, v)
  \/ \E g \in G, h \in Handles, n \in VoidSetters, v \in Lens :
       callSetterVoidWithLock(g, h, n, v)
  \/ \E g \in G : initWasm(g)
  \/ \E g \in G : New_inited(g)
  \/ \E g \in Threads : Steps("G", g)
  \/ \E g \in Threads : GuestReturn(g)
  \/ \E g \in Threads : Return(g)
  \/ \E h \in Handles : Drop(h)
  \/ \E h \in Handles : Finalize("G", h)

SpecG == Init /\ [][NextG]_vars

\* ------------- the global design with Url values no constructor returned
\* a predicate that runs ensureWasmInit() itself
Url_Valid_zero_inits(g, name) ==
  /\ Lock(g)
  /\ th' = [th EXCEPT ![g] =
              [IdleT EXCEPT !.op = "Predicate", !.name = name, !.inst = 1,
                            !.pc = ensureInit]]
  /\ Once_Do
  /\ UNCHANGED <<exports, conv, plife, gtext, wasmModule, pvars, hvars, heap, ghost,
                 funcCache, cacheMutex, lookups>>

\* (*Url).Valid, HasPort, ... on a Url the caller made itself (&Url{}, with
\* cpointer 0): lock, callAdaBoolFunction(name, 0), whose
\* wasmModule.ExportedFunction panics on the nil module of a process that
\* has not been initialized
Url_Valid_zero(g, name) ==
  /\ Lock(g)
  /\ LET t0 == [IdleT EXCEPT !.op = "Predicate", !.name = name, !.inst = 1]
     IN th' = [th EXCEPT ![g] =
                 IF wasmModule = "nil" THEN Panic(t0)
                 ELSE IF ~Has(name) THEN RetVal(t0, 0)
                 ELSE CallGuest(t0, name, 0, "bool_called")]
  /\ UNCHANGED <<env, initOnce, wasmModule, pvars, hvars, heap, ghost,
                 funcCache>>

NextZ ==
  \/ NextG
  \/ \E g \in G, n \in Predicates : Url_Valid_zero(g, n)

SpecZ == Init /\ [][NextZ]_vars

\* ----------------- the global design with the callers blocked in Lock()
\* a goroutine has called a public operation and stands in
\* wasmMutex.Lock(), its first statement, until the mutex is handed to it
Lock_blocked(g) ==
  /\ Quiet
  /\ th[g].pc = "idle"
  /\ th' = [th EXCEPT ![g] = [IdleT EXCEPT !.pc = "lock"]]
  /\ UNCHANGED <<env, gvars, pvars, hvars, heap, ghost, funcCache>>

\* Lock() returns in a blocked goroutine: the operation it called goes on
Lock_acquired(g) ==
  /\ th[g].pc = "lock"
  /\ \/ \E s \in Lens : New(g, s)
     \/ \E s \in Lens, b \in Lens : NewWithBase(g, s, b)
     \/ \E h \in Handles : Url_Free(g, h)
     \/ \E h \in Handles, n \in Predicates : Url_Valid(g, h, n)
     \/ \E h \in Handles, n \in Getters : Url_Href(g, h, n)
     \/ \E h \in Handles, n \in BoolSetters, v \in Lens :
          allSetterBoolWithLock(g, h, n, v)
     \/ \E h \in Handles, n \in VoidSetters, v \in Lens :
          callSetterVoidWithLock(g, h, n, v)

\* what a goroutine inside an operation does next
Run(g) ==
  \/ initWasm(g)
  \/ New_inited(g)
  \/ Steps("G", g)
  \/ GuestReturn(g)
  \/ Return(g)

\* the callers keep their handles: no finalizer runs
NextL ==
  \/ \E g \in G : Lock_blocked(g)
  \/ \E g \in G : Lock_acquired(g)
  \/ \E g \in G : Run(g)

\* The scheduler runs every goroutine that can run and every guest call
\* returns (weak fairness on Run); sync.Mutex hands the mutex to a goroutine
\* that keeps waiting for it (starvation mode: strong fairness on
\* Lock_acquired).
FairL ==
  \A g \in G : WF_vars(Run(g)) /\ SF_vars(Lock_acquired(g))

SpecL == Init /\ [][NextL]_vars /\ FairL

\* ------------- the global design against the guest with answers followed
\* reparsed, err := New(got.Href()): the caller of Href() on a handle it
\* has not freed hands the string it got to New
New_reparse(g) ==
  /\ th[g].pc = "done" /\ th[g].op = "Accessor" /\ th[g].out.kind = "val"
  /\ ~th[g].onFreed
  /\ \A x \in Threads \ {g} : th[x].pc \in {"idle", "call"}
  /\ wasmMutex = 0 /\ wasmMutex' = g
  /\ CanCreate
  /\ th' = [th EXCEPT ![g] =
              [IdleT EXCEPT !.op = "New", !.inst = 1, !.ulen = th[g].out.v,
                            !.pc = ensureInit, !.cause = th[g].cause,
                            !.src = th[g].h, !.expect = th[g].out.v]]
  /\ Once_Do
  /\ UNCHANGED <<exports, conv, plife, gtext, wasmModule, pvars, hvars, heap, ghost, funcCache,
                 cacheMutex, lookups>>

\* reparsed.Href(): the caller of a New(got.Href()) that gave a handle asks
\* the new handle for its href
Reparsed_Href(g, name) ==
  /\ th[g].pc = "done" /\ th[g].op = "New" /\ th[g].src # 0
  /\ th[g].out.kind = "val" /\ th[g].out.err = "nil"
  /\ \A x \in Threads \ {g} : th[x].pc \in {"idle", "call"}
  /\ wasmMutex = 0 /\ wasmMutex' = g
  /\ LET h == th[g].out.h
         t0 == [OnHandle("Accessor", h, name, 1) EXCEPT
                  !.obj = cpointer[h], !.cause = th[g].cause,
                  !.src = th[g].src, !.expect = th[g].expect]
     IN th' = [th EXCEPT ![g] =
                 IF ~Has(name) THEN RetVal(t0, 0) ELSE ReadAdaStringStart(t0)]
  /\ UNCHANGED <<env, initOnce, wasmModule, pvars, hvars, heap, ghost,
                 funcCache>>

NextD ==
  \/ \E g \in G, s \in Strs : New(g, s)
  \/ \E g \in G, s \in Strs, b \in Strs : NewWithBase(g, s, b)
  \/ \E g \in G, h \in Handles : Url_Free(g, h)
  \/ \E g \in G, h \in Handles, n \in Predicates : Url_Valid(g, h, n)
  \/ \E g \in G, h \in Handles, n \in Getters : Url_Href(g, h, n)
  \/ \E g \in G, h \in Handles, n \in BoolSetters, v \in Strs :
       allSetterBoolWithLock(g, h, n, v)
  \/ \E g \in G, h \in Handles, n \in VoidSetters, v \in Strs :
       callSetterVoidWithLock(g, h, n, v)
  \/ \E g \in G : New_reparse(g)
  \/ \E g \in G, n \in Getters : Reparsed_Href(g, n)
  \/ \E g \in G : initWasm(g)
  \/ \E g \in G : New_inited(g)
  \/ \E g \in Threads : Steps("G", g)
  \/ \E g \in Threads : GuestReturnD(g)
  \/ \E g \in Threads : Return(g)
  \/ \E h \in Handles : Drop(h)
  \/ \E h \in Handles : Finalize("G", h)

SpecD == InitP /\ [][NextD]_vars

\* --------------------------- per-Parser design (src/unnamed/part_000)
\* a call into Parser p by goroutine g: no lock is taken
Enter(g, p) ==
  /\ Quiet
  /\ th[g].pc = "idle"
  /\ pmod[p] \in {"open", "closed"}
  /\ users' = [users EXCEPT ![p] = @ \cup {g}]

\* The callers of this design keep the operations on one instance apart
\* (spec section 5): an operation starts on Parser p only when no other
\* goroutine is inside one on p.  Free is the exception modelled here: it
\* may be called while another operation on p, another Free included, is
\* running.
Serial(g, p) ==
  \A x \in G \ {g} : (Busy(x) /\ th[x].inst = p) => th[x].op = "Free"

\* initGlobalWasm(): the body run by the first caller compiles the module
\* or panics; sync.Once is done either way
initGlobalWasm(g) ==
  /\ Quiet
  /\ th[g].pc = "init"
  /\ \E m \in InitOutcomes :
       /\ compiledModule' = m
       /\ th' = [th EXCEPT ![g] =
                   IF m = "nil"
                     THEN [th[g] EXCEPT !.pc = "done",
                             !.out = [kind |-> "panic", err |-> "init",
                                      h |-> 0, v |-> 0]]
                   ELSE [th[g] EXCEPT !.pc = "inited"]]
  /\ initOnce' = "done"
  /\ UNCHANGED <<env, wasmModule, wasmMutex, pmod, users, hvars, heap, ghost,
                 funcCache>>

\* NewParser(): ensureGlobalInit()
NewParser(g) ==
  /\ Quiet
  /\ th[g].pc = "idle"
  /\ \E p \in Insts : pmod[p] = "none"
  /\ th' = [th EXCEPT ![g] = [IdleT EXCEPT !.op = "NewParser", !.pc = ensureInit]]
  /\ Once_Do
  /\ UNCHANGED <<exports, conv, plife, gtext, wasmModule, wasmMutex, pvars, hvars, heap, ghost,
                 funcCache, cacheMutex, lookups>>

\* NewParser() after ensureGlobalInit(): InstantiateModule on the compiled
\* module (a nil one panics), which can fail with an error; on success a
\* Parser with a fresh function cache.  A run holds NumInst Parsers at most.
NewParser_inited(g) ==
  /\ th[g].pc = "inited"
  /\ th[g].op = "NewParser"
  /\ LET t0 == [th[g] EXCEPT !.pc = "done"]
         out(k, e) == [kind |-> k, err |-> e, h |-> 0, v |-> 0]
         slots == {p \in Insts : pmod[p] = "none"}
     IN IF compiledModule = "nil"
        THEN /\ th' = [th EXCEPT ![g] = [t0 EXCEPT !.out = out("panic", "nil")]]
             /\ UNCHANGED <<pmod, users>>
        ELSE \/ /\ th' = [th EXCEPT ![g] = [t0 EXCEPT !.out = out("val", "other")]]
                /\ UNCHANGED <<pmod, users>>
             \/ \E p \in slots :
                  /\ \A q \in slots : p <= q
                  /\ th' = [th EXCEPT ![g] =
                              [t0 EXCEPT !.out = out("val", "nil"), !.inst = p]]
                  /\ pmod' = [pmod EXCEPT ![p] = "open"]
                  /\ users' = [users EXCEPT ![p] = {}]
  /\ UNCHANGED <<env, gvars, compiledModule, hvars, heap, ghost, funcCache>>

\* module.Close calls followed per Parser
MaxCloses == 2

\* p.module.Close(p.ctx) of wazero: the first call on a module releases the
\* instance, a call on a closed module does nothing
ModuleClose(p) ==
  [plife EXCEPT ![p].closes = @ + 1,
                ![p].releases = IF pmod[p] = "open" THEN @ + 1 ELSE @]

\* Close returned
CloseDone(p) ==
  [IdleT EXCEPT !.op = "Close", !.inst = p, !.pc = "done",
                !.onClosed = Closed(p),
                !.out = [kind |-> "val", err |-> "nil", h |-> 0, v |-> 0]]

\* a Close that also empties the function cache of the Parser
Parser_Close_evicts(g, p) ==
  /\ Enter(g, p) /\ Serial(g, p)
  /\ plife[p].held /\ plife[p].closes < MaxCloses
  /\ pmod' = [pmod EXCEPT ![p] = "closed"]
  /\ plife' = ModuleClose(p)
  /\ funcCache' = [funcCache EXCEPT ![p] = {}]
  /\ th' = [th EXCEPT ![g] = CloseDone(p)]
  /\ UNCHANGED <<exports, initRuns, cacheMutex, lookups, gtext, conv, gvars,
                 compiledModule, hvars, heap, ghost>>

\* a Close that releases the instance whatever state the module is in
Parser_Close_forced(g, p) ==
  /\ Enter(g, p) /\ Serial(g, p)
  /\ plife[p].held /\ plife[p].closes < MaxCloses
  /\ pmod' = [pmod EXCEPT ![p] = "closed"]
  /\ plife' = [plife EXCEPT ![p].closes = @ + 1, ![p].releases = @ + 1]
  /\ th' = [th EXCEPT ![g] = CloseDone(p)]
  /\ UNCHANGED <<exports, initRuns, cacheMutex, lookups, gtext, conv, gvars,
                 compiledModule, hvars, heap, ghost, funcCache>>

\* (*Parser).Close: p.module.Close(p.ctx); closing a closed module is a
\* no-op.  The function cache is left as it is.
Parser_Close(g, p) ==
  /\ Enter(g, p) /\ Serial(g, p)
  /\ plife[p].held /\ plife[p].closes < MaxCloses
  /\ pmod' = [pmod EXCEPT ![p] = "closed"]
  /\ plife' = ModuleClose(p)
  /\ th' = [th EXCEPT ![g] = CloseDone(p)]
  /\ UNCHANGED <<exports, initRuns, cacheMutex, lookups, gtext, conv, gvars,
                 compiledModule, hvars, heap, ghost, funcCache>>

\* the caller lets go of its last reference to a Parser it is not using
Parser_Drop(p) ==
  /\ Quiet
  /\ pmod[p] \in {"open", "closed"} /\ plife[p].held
  /\ \A g \in Threads : ~(Busy(g) /\ th[g].inst = p)
  /\ plife' = [plife EXCEPT ![p].held = FALSE]
  /\ UNCHANGED <<exports, initRuns, cacheMutex, lookups, gtext, conv, gvars,
                 pvars, hvars, heap, ghost, funcCache, th>>

\* runtime.SetFinalizer(parser, (*Parser).Close): the garbage collector
\* found the Parser unreachable (no caller and no handle that still has to
\* be finalized refers to it) and the finalizer goroutine runs Close,
\* whether or not Close was called before
Parser_Finalize(p) ==
  /\ Quiet
  /\ th[Fin].pc = "idle"
  /\ pmod[p] \in {"open", "closed"}
  /\ ~plife[p].held /\ plife[p].fin /\ plife[p].closes < MaxCloses
  /\ \A h \in Handles :
       (h <= nh /\ hparser[h] = p) => (~reach[h] /\ ~finalizer[h])
  /\ pmod' = [pmod EXCEPT ![p] = "closed"]
  /\ plife' = [ModuleClose(p) EXCEPT ![p].fin = FALSE]
  /\ th' = [th EXCEPT ![Fin] = CloseDone(p)]
  /\ UNCHANGED <<exports, initRuns, cacheMutex, lookups, gtext, conv, gvars,
                 compiledModule, users, hvars, heap, ghost, funcCache>>

\* (*Parser).New(urlstring) up to its first guest call
Parser_New(g, p, s) ==
  /\ Enter(g, p) /\ Serial(g, p) /\ CanCreate
  /\ LET t0 == [IdleT EXCEPT !.op = "New", !.inst = p, !.ulen = s,
                             !.onClosed = Closed(p)]
     IN th' = [th EXCEPT ![g] =
                 IF IsEmpty(s) THEN RetErr(t0, "ErrEmptyString")
                 ELSE WriteStringStart(t0, s, "New_url")]
  /\ Looked("P", p, WriteStringNames(s))
  /\ UNCHANGED <<env, gvars, compiledModule, pmod, hvars, heap, ghost>>

\* (*Parser).NewWithBase(urlstring, basestring) up to its first guest call
Parser_NewWithBase(g, p, s, b) ==
  /\ Enter(g, p) /\ Serial(g, p) /\ CanCreate
  /\ LET t0 == [IdleT EXCEPT !.op = "NewWithBase", !.inst = p, !.ulen = s,
                             !.blen = b, !.onClosed = Closed(p)]
     IN th' = [th EXCEPT ![g] =
                 IF IsEmpty(s) \/ IsEmpty(b) THEN RetErr(t0, "ErrEmptyString")
                 ELSE WriteStringStart(t0, s, "NewWithBase_url")]
  /\ Looked("P", p, IF IsEmpty(s) \/ IsEmpty(b) THEN {} ELSE {"malloc"})
  /\ UNCHANGED <<env, gvars, compiledModule, pmod, hvars, heap, ghost>>

\* (*Url).Free of the per-Parser design: runtime.SetFinalizer(u, nil),
\* u.ada_free()
Parser_Url_Free(g, h) ==
  /\ Live(h) /\ Enter(g, parserOf(h))
  /\ finalizer' = [finalizer EXCEPT ![h] = FALSE]
  /\ freeBody("P", g, OnHandle("Free", h, "", parserOf(h)), h)
  /\ UNCHANGED <<env, gvars, compiledModule, pmod, nh, reach, hparser,
                 heap, freed, reclaimed>>

\* (*Url).Valid, HasPort, ...: u.parser.callAdaBoolFunction(name, u.cpointer)
Parser_Url_Valid(g, h, name) ==
  /\ Live(h) /\ Enter(g, parserOf(h)) /\ Serial(g, parserOf(h))
  /\ LET t0 == OnHandle("Predicate", h, name, parserOf(h))
     IN th' = [th EXCEPT ![g] =
                 IF ~Has(name) THEN RetVal(t0, 0)
                 ELSE CallGuest(t0, name, cpointer[h], "bool_called")]
  /\ Looked("P", parserOf(h), {name})
  /\ UNCHANGED <<env, gvars, compiledModule, pmod, hvars, heap, ghost>>

\* (*Url).Href, Port, ...: getFunction(name), readAdaString(fn, u.cpointer)
Parser_Url_Href(g, h, name) ==
  /\ Live(h) /\ Enter(g, parserOf(h)) /\ Serial(g, parserOf(h))
  /\ LET t0 == [OnHandle("Accessor", h, name, parserOf(h))
                  EXCEPT !.obj = cpointer[h]]
     IN th' = [th EXCEPT ![g] =
                 IF ~Has(name) THEN RetVal(t0, 0) ELSE ReadAdaStringStart(t0)]
  /\ Looked("P", parserOf(h), IF Has(name) THEN {name, "malloc"} ELSE {})
  /\ UNCHANGED <<env, gvars, compiledModule, pmod, hvars, heap, ghost>>

\* (*Url).callSetterBool(funcName, value)
callSetterBool(g, h, name, v) ==
  /\ Live(h) /\ Enter(g, parserOf(h)) /\ Serial(g, parserOf(h))
  /\ LET t0 == [OnHandle("SetterBool", h, name, parserOf(h)) EXCEPT !.ulen = v]
     IN th' = [th EXCEPT ![g] =
                 IF ~Has(name) THEN RetVal(t0, 0)
                 ELSE WriteStringStart(t0, v, "setter_value")]
  /\ Looked("P", parserOf(h),
            IF Has(name) THEN {name} \cup WriteStringNames(v) ELSE {})
  /\ UNCHANGED <<env, gvars, compiledModule, pmod, hvars, heap, ghost>>

\* (*Url).callSetterVoid(funcName, value)
callSetterVoid(g, h, name, v) ==
  /\ Live(h) /\ Enter(g, parserOf(h)) /\ Serial(g, parserOf(h))
  /\ LET t0 == [OnHandle("SetterVoid", h, name, parserOf(h)) EXCEPT !.ulen = v]
     IN th' = [th EXCEPT ![g] =
                 IF ~Has(name) THEN RetVal(t0, 0)
                 ELSE WriteStringStart(t0, v, "setter_value")]
  /\ Looked("P", parserOf(h),
            IF Has(name) THEN {name} \cup WriteStringNames(v) ELSE {})
  /\ UNCHANGED <<env, gvars, compiledModule, pmod, hvars, heap, ghost>>

NextP ==
  \/ \E g \in G : NewParser(g)
  \/ \E g \in G : initGlobalWasm(g)
  \/ \E g \in G : Once_wake(g)
  \/ \E g \in G : NewParser_inited(g)
  \/ \E g \in G, p \in Insts, s \in Lens : Parser_New(g, p, s)
  \/ \E g \in G, p \in Insts, s \in Lens, b \in Lens :
       Parser_NewWithBase(g, p, s, b)
  \/ \E g \in G, h \in Handles : Parser_Url_Free(g, h)
  \/ \E g \in G, h \in Handles, n \in Predicates : Parser_Url_Valid(g, h, n)
  \/ \E g \in G, h \in Handles, n \in Getters : Parser_Url_Href(g, h, n)
  \/ \E g \in G, h \in Handles, n \in BoolSetters, v \in Lens :
       callSetterBool(g, h, n, v)
  \/ \E g \in G, h \in Handles, n \in VoidSetters, v \in Lens :
       callSetterVoid(g, h, n, v)
  \/ \E g \in Threads : Steps("P", g)
  \/ \E g \in Threads : GuestReturn(g)
  \/ \E g \in Threads : Return(g)
  \/ \E h \in Handles : Drop(h)
  \/ \E h \in Handles : Finalize("P", h)

SpecP == InitP /\ [][NextP]_vars

\* the per-Parser design with NumInst Parsers in one run
InitI ==
  /\ conv = ConvIdle
  /\ InitState({ExportNames}, NumInst)
\* one goroutine (and the finalizer goroutine) working on all of them
Solo == {1}
NextI ==
  \/ \E g \in Solo : NewParser(g)
  \/ \E g \in Solo : initGlobalWasm(g)
  \/ \E g \in Solo : NewParser_inited(g)
  \/ \E g \in Solo, p \in Insts, s \in Lens : Parser_New(g, p, s)
  \/ \E g \in Solo, p \in Insts, s \in Lens, b \in Lens :
       Parser_NewWithBase(g, p, s, b)
  \/ \E g \in Solo, h \in Handles : Parser_Url_Free(g, h)
  \/ \E g \in Solo, h \in Handles, n \in Predicates : Parser_Url_Valid(g, h, n)
  \/ \E g \in Solo, h \in Handles, n \in Getters : Parser_Url_Href(g, h, n)
  \/ \E g \in Solo, h \in Handles, n \in BoolSetters, v \in Lens :
       callSetterBool(g, h, n, v)
  \/ \E g \in Solo, h \in Handles, n \in VoidSetters, v \in Lens :
       callSetterVoid(g, h, n, v)
  \/ \E g \in Solo \cup {Fin} : Steps("P", g)
  \/ \E g \in Solo \cup {Fin} : GuestReturn(g)
  \/ \E g \in Solo \cup {Fin} : Return(g)
  \/ \E h \in Handles : Drop(h)
  \/ \E h \in Handles : Finalize("P", h)
SpecI == InitI /\ [][NextI]_vars

\* Parsers created, closed by their callers, dropped and finalized
NextK ==
  \/ \E g \in G : NewParser(g)
  \/ \E g \in G : initGlobalWasm(g)
  \/ \E g \in G : Once_wake(g)
  \/ \E g \in G : NewParser_inited(g)
  \/ \E g \in G, p \in Insts : Parser_Close(g, p)
  \/ \E p \in Insts : Parser_Drop(p)
  \/ \E p \in Insts : Parser_Finalize(p)
  \/ \E g \in Threads : Return(g)

SpecK == InitI /\ [][NextK]_vars

\* ------------------------- Parser.getFunction, statement by statement
\* getFunction(name): RLock, read the cache, RUnlock.  A hit returns the
\* cached handle.  (RLock waits while a goroutine holds the write lock.)
getFunction(g, p, name) ==
  /\ th[g].pc = "idle"
  /\ pmod[p] \in {"open", "closed"}
  /\ cacheMutex[p] = 0
  /\ LET t0 == [IdleT EXCEPT !.op = "getFunction", !.inst = p, !.name = name,
                             !.onClosed = Closed(p)]
     IN th' = [th EXCEPT ![g] =
                 IF Cached(p, name) # {}
                   THEN [t0 EXCEPT !.pc = "done", !.vstate = "hit",
                           !.out = [kind |-> "val", err |-> "nil", h |-> 0,
                                    v |-> (CHOOSE e \in Cached(p, name) : TRUE).fn]]
                 ELSE [t0 EXCEPT !.pc = "gf_miss"]]
  /\ UNCHANGED <<env, gvars, pvars, hvars, heap, ghost, funcCache>>

\* a miss: p.mutex.Lock()
getFunction_miss(g) ==
  /\ th[g].pc = "gf_miss"
  /\ cacheMutex[th[g].inst] = 0
  /\ cacheMutex' = [cacheMutex EXCEPT ![th[g].inst] = g]
  /\ th' = [th EXCEPT ![g] = [th[g] EXCEPT !.pc = "gf_locked"]]
  /\ UNCHANGED <<exports, conv, plife, gtext, initRuns, lookups, gvars, pvars, hvars, heap, ghost,
                 funcCache>>

\* a getFunction that does not look at the cache again under the write lock
getFunction_recheck_never(p, name) == FALSE

\* the double check under the write lock: `if fn, ok := p.funcCache[name]; ok`
getFunction_recheck(p, name) == Cached(p, name) # {}

\* a getFunction that memoizes whatever the lookup returned, nil included
getFunction_locked_memoizes_nil(g) ==
  /\ th[g].pc = "gf_locked"
  /\ LET t == th[g]
         p == t.inst
         n == t.name
         fn == IF Has(n) THEN lookups[p][n] + 1 ELSE 0
         out(v) == [kind |-> "val", err |-> "nil", h |-> 0, v |-> v]
     IN IF getFunction_recheck(p, n)
        THEN /\ th' = [th EXCEPT ![g] =
                         [t EXCEPT !.pc = "done", !.vstate = "recheck",
                            !.out = out((CHOOSE e \in Cached(p, n) : TRUE).fn)]]
             /\ UNCHANGED <<lookups, funcCache>>
        ELSE /\ lookups[p][n] < MaxLookups
             /\ lookups' = [lookups EXCEPT ![p][n] = @ + 1]
             /\ funcCache' = [funcCache EXCEPT ![p] =
                                {e \in @ : e.name # n}
                                  \cup {[name |-> n, fn |-> fn]}]
             /\ th' = [th EXCEPT ![g] =
                         [t EXCEPT !.pc = "done", !.vstate = "lookup",
                                   !.out = out(fn)]]
  /\ cacheMutex' = [cacheMutex EXCEPT ![th[g].inst] = 0]
  /\ UNCHANGED <<exports, conv, plife, gtext, initRuns, gvars, pvars, hvars, heap, ghost>>

\* under the write lock: the double check, else module.ExportedFunction(name),
\* memoized when not nil; the deferred Unlock
getFunction_locked(g) ==
  /\ th[g].pc = "gf_locked"
  /\ LET t == th[g]
         p == t.inst
         n == t.name
         fn == IF Has(n) THEN lookups[p][n] + 1 ELSE 0
         out(v) == [kind |-> "val", err |-> "nil", h |-> 0, v |-> v]
     IN IF getFunction_recheck(p, n)
        THEN /\ th' = [th EXCEPT ![g] =
                         [t EXCEPT !.pc = "done", !.vstate = "recheck",
                            !.out = out((CHOOSE e \in Cached(p, n) : TRUE).fn)]]
             /\ UNCHANGED <<lookups, funcCache>>
        ELSE /\ lookups[p][n] < MaxLookups
             /\ lookups' = [lookups EXCEPT ![p][n] = @ + 1]
             /\ funcCache' = IF fn = 0 THEN funcCache
                             ELSE [funcCache EXCEPT ![p] =
                                     {e \in @ : e.name # n}
                                       \cup {[name |-> n, fn |-> fn]}]
             /\ th' = [th EXCEPT ![g] =
                         [t EXCEPT !.pc = "done", !.vstate = "lookup",
                                   !.out = out(fn)]]
  /\ cacheMutex' = [cacheMutex EXCEPT ![th[g].inst] = 0]
  /\ UNCHANGED <<exports, conv, plife, gtext, initRuns, gvars, pvars, hvars, heap, ghost>>

\* the names looked up in the runs of getFunction
CacheNames == {"malloc", "ada_free"}

NextF ==
  \/ \E g \in G : NewParser(g)
  \/ \E g \in G : initGlobalWasm(g)
  \/ \E g \in G : Once_wake(g)
  \/ \E g \in G : NewParser_inited(g)
  \/ \E g \in G, p \in Insts, n \in CacheNames : getFunction(g, p, n)
  \/ \E g \in G : getFunction_miss(g)
  \/ \E g \in G : getFunction_locked(g)
  \/ \E g \in G, p \in Insts : Parser_Close(g, p)
  \/ \E g \in G : Return(g)

SpecF == Init /\ [][NextF]_vars

\* the per-Parser design with Parser.Close among the operations
NextC ==
  \/ NextP
  \/ \E g \in G, p \in Insts : Parser_Close(g, p)

SpecC == InitP /\ [][NextC]_vars

\* ------------------------------------------------------------ properties
HandleOps == {"Predicate", "Accessor", "SetterBool", "SetterVoid"}
Returned(g, ops) == th[g].pc = "done" /\ th[g].op \in ops

\* C1: for any handle, over any interleaving of explicit Free calls and of
\* the finalizer, ada_free is invoked at most once for that handle.
C1_AdaFreeAtMostOnce == \A h \in Handles : adaFreeCalls[h] <= 1

\* C2: in the global design no two guest calls (export calls, memory reads
\* and writes) are in progress at the same time, the finalizer's included.
C2_GuestCallsSerialized == Cardinality({g \in Threads : InCall(g)}) <= 1

\* C3: in the per-Parser design, when a Parser and its handles are used by
\* one goroutine only, no two guest calls on its instance overlap, the
\* ada_free calls of the finalizer included.
C3_NoOverlapSingleUser ==
  \A p \in Insts :
    Cardinality(users[p]) <= 1 =>
      Cardinality({g \in Threads : InCall(g) /\ th[g].inst = p}) <= 1

\* C4 as stated: after Free was called twice in sequence on a handle,
\* ada_free has been invoked exactly once for it.
C4_SecondFree_ExactlyOnce ==
  \A g \in G :
    (Returned(g, {"Free"}) /\ th[g].onFreed) => adaFreeCalls[th[g].h] = 1

\* C4 as amended: a Free on a handle that an earlier Free already released
\* makes no guest call; ada_free is invoked at most once per handle, and
\* exactly once for a handle released by Free when the module exports
\* ada_free.
C4_SecondFree_NoCall ==
  /\ \A g \in G : (th[g].op = "Free" /\ th[g].onFreed) => ~th[g].called
  /\ \A h \in Handles :
       /\ adaFreeCalls[h] <= 1
       /\ (freed[h] /\ Has("ada_free")) => adaFreeCalls[h] = 1
C4_Witness ==
  \E g \in G : /\ Returned(g, {"Free"}) /\ th[g].onFreed
               /\ adaFreeCalls[th[g].h] = 1

\* C5: once Free or the finalizer has completed on a handle its pointer is
\* 0 in every later state, whatever is called on it, also when ada_free is
\* missing or its call fails.  (freed and reclaimed are never reset.)
C5_FreedAbsorbing == \A h \in Handles : Freed(h) => cpointer[h] = 0
C5_Witness ==
  \E g \in G : /\ Returned(g, HandleOps \cup {"Free"}) /\ th[g].onFreed
               /\ ~Has("ada_free")

\* C6: an accessor, predicate or setter called on a freed handle makes no
\* guest call.
C6_FreedFailsFast ==
  \A g \in G : (th[g].op \in HandleOps /\ th[g].onFreed) => ~th[g].called

\* C7: New("") returns (nil, ErrEmptyString) and makes no guest call, in any
\* state of the module, also when the initialization has not run or fails.
C7_NewEmpty ==
  \A g \in G :
    (Returned(g, {"New"}) /\ th[g].ulen = 0) =>
       /\ th[g].out.kind = "val" /\ th[g].out.err = "ErrEmptyString"
       /\ th[g].out.h = 0 /\ ~th[g].called

\* C8: NewWithBase with an empty url or base returns (nil, ErrEmptyString),
\* writes nothing into guest memory and calls no export.
C8_NewWithBaseEmpty ==
  \A g \in G :
    (Returned(g, {"NewWithBase"}) /\ (th[g].ulen = 0 \/ th[g].blen = 0)) =>
       /\ th[g].out.kind = "val" /\ th[g].out.err = "ErrEmptyString"
       /\ th[g].out.h = 0 /\ ~th[g].called

\* C9: New / NewWithBase return a handle only if the parse export returned a
\* non-zero pointer and ada_is_valid answered non-zero for it; the handle's
\* pointer is that parse result, and the error is nil exactly when a handle
\* is returned.
C9_HandleOnlyIfValid ==
  \A g \in G :
    (Returned(g, {"New", "NewWithBase"}) /\ th[g].out.kind = "val") =>
       /\ th[g].out.h # 0 <=> th[g].out.err = "nil"
       /\ th[g].out.h # 0 =>
            /\ th[g].obj # 0 /\ th[g].vstate = "ok"
            /\ cpointer[th[g].out.h] = th[g].obj
C9_Witness ==
  \E g \in G : Returned(g, {"New", "NewWithBase"}) /\ th[g].out.h # 0

\* the result of a construction whose object failed the validity check
InvalidResult(g) ==
  /\ th[g].out.kind = "val" /\ th[g].out.err = "ErrInvalidUrl"
  /\ th[g].out.h = 0
  /\ \A h \in Handles : cpointer[h] # th[g].obj
FailedValidity(g) ==
  Returned(g, {"New", "NewWithBase"}) /\ th[g].obj # 0 /\ th[g].vstate = "fail"

\* C10 as stated: when the parse export returned an object that fails the
\* validity check, ada_free is invoked on it exactly once, ErrInvalidUrl and
\* no handle are returned, and no handle (hence no finalizer) holds it.
C10_InvalidFreedOnce ==
  \A g \in G : FailedValidity(g) => (th[g].nfree = 1 /\ InvalidResult(g))

\* C10 as amended: ... ada_free is invoked on it exactly once when the
\* module exports ada_free and not at all otherwise; ErrInvalidUrl and no
\* handle are returned, and no handle holds the object.
C10_InvalidFreedOnceIfExported ==
  \A g \in G :
    FailedValidity(g) =>
      /\ th[g].nfree = (IF Has("ada_free") THEN 1 ELSE 0)
      /\ InvalidResult(g)
C10_Witness ==
  \E g \in G : FailedValidity(g) /\ th[g].nfree = 1

\* C11: under any number of concurrent first calls to New / NewWithBase /
\* NewParser the one-time initialization body runs exactly once, and no
\* caller is past initOnce.Do (making a guest call, instantiating a module)
\* before that run has ended.
C11_InitOnce ==
  /\ initRuns <= 1
  /\ initOnce = "done" => initRuns = 1
  /\ \A g \in Threads :
       th[g].pc \notin {"idle", "init", "waitInit"} => initOnce = "done"
  /\ \A p \in Insts : pmod[p] \in {"open", "closed"} => initOnce = "done"
C11_Witness ==
  \E g \in G : th[g].op = "NewParser" /\ th[g].pc = "done" /\ th[g].waited

\* C12: an operation started on a closed Parser, or on a handle of one,
\* fails in a fixed way: New and NewWithBase return an error and no handle,
\* accessors the empty string, predicates and bool setters false, and Free
\* returns with the handle's pointer cleared; none panics.
C12_ClosedFails ==
  \A g \in G :
    (th[g].pc = "done" /\ th[g].onClosed) =>
       /\ th[g].out.kind = "val"
       /\ th[g].op \in {"New", "NewWithBase"} =>
            (th[g].out.err # "nil" /\ th[g].out.h = 0)
       /\ th[g].op \in {"Accessor", "Predicate", "SetterBool"} =>
            th[g].out.v = 0
       /\ th[g].op = "Free" => (cpointer[th[g].h] = 0 /\ freed[th[g].h])
C12_Witness ==
  \E g \in G : /\ Returned(g, {"Free"}) /\ th[g].onClosed /\ ~th[g].onFreed
               /\ th[g].called

\* C13: a predicate returns true exactly when its export exists, the guest
\* call succeeded and the first result word is non-zero; otherwise it
\* returns false, never an error or a panic.
C13_PredicateResult ==
  \A g \in G :
    Returned(g, {"Predicate"}) =>
       /\ th[g].out.kind = "val" /\ th[g].out.err = "nil"
       /\ th[g].out.v \in {0, 1}
       /\ th[g].out.v = 1 <=> (Has(th[g].name) /\ th[g].vstate = "ok")
C13_Witness ==
  \E g \in G : Returned(g, {"Predicate"}) /\ th[g].out.v = 1

\* an accessor met one of the failures of C14
AccessorFailed(g) ==
  \/ ~Has(th[g].name) \/ ~Has("malloc")
  \/ th[g].cause \in {"callerr", "null"}

\* C14: an accessor returns the empty string, never a partial string or a
\* panic, whenever its getter export is missing, the scratch allocation
\* fails, the guest call fails or a guest memory read fails.
C14_AccessorFailsEmpty ==
  \A g \in G :
    (Returned(g, {"Accessor"}) /\ AccessorFailed(g)) =>
       (th[g].out.kind = "val" /\ th[g].out.v = 0)

\* C15: a construction returns ErrInvalidUrl only when the guest rejected
\* the input (a parse export or ada_is_valid returned 0); a missing export,
\* a failed allocation or a failed guest call or memory access gives
\* another non-nil error.
C15_InvalidOnlyIfRejected ==
  \A g \in G :
    (Returned(g, {"New", "NewWithBase"}) /\ th[g].out.kind = "val") =>
       /\ th[g].out.err = "ErrInvalidUrl" => th[g].cause = "zero"
       /\ th[g].cause \in {"callerr", "null"} =>
            th[g].out.err \notin {"nil", "ErrInvalidUrl"}

\* handle h holds an object and no Free or finalizer run on it is under way
Holding(h) ==
  /\ h <= nh /\ cpointer[h] # 0
  /\ \A g \in Threads :
       ~(Busy(g) /\ th[g].h = h /\ th[g].op \in {"Free", "finalizer"})
InstOf(h) == IF hparser[h] = 0 THEN 1 ELSE hparser[h]

\* C16: handles live at the same time in one instance have pairwise
\* distinct non-zero pointers, and freeing one of them leaves the others
\* as they were: same pointer, object still allocated in the guest.
C16_DistinctLiveHandles ==
  \A h1 \in Handles :
    Holding(h1) =>
      /\ cpointer[h1] \in objs[InstOf(h1)]
      /\ \A h2 \in Handles \ {h1} :
           (Holding(h2) /\ InstOf(h2) = InstOf(h1)) =>
              cpointer[h2] # cpointer[h1]

\* C19: for a name whose export exists, over every interleaving of
\* concurrent getFunction calls on one Parser, module.ExportedFunction is
\* called at most once for the name, and every caller gets the same handle.
C19_SingleLookup ==
  \A p \in Insts, n \in ExportNames :
    Has(n) =>
      /\ lookups[p][n] <= 1
      /\ \A g \in G :
           (Returned(g, {"getFunction"}) /\ th[g].inst = p /\ th[g].name = n) =>
              (th[g].out.v # 0 /\ Cached(p, n) = {[name |-> n, fn |-> th[g].out.v]})
C19_Witness ==
  \E g \in G : Returned(g, {"getFunction"}) /\ th[g].vstate = "recheck"

\* C20: the function cache of a Parser only grows: an entry, once there, is
\* never removed and never bound to another handle, by getFunction or Close.
C20_CacheOnlyGrows ==
  [][\A p \in Insts :
       /\ funcCache[p] \subseteq funcCache'[p]
       /\ \A e1, e2 \in funcCache'[p] : e1.name = e2.name => e1 = e2]_vars
C20_Witness ==
  \E g \in G, p \in Insts :
     /\ Returned(g, {"getFunction"}) /\ th[g].inst = p /\ th[g].onClosed
     /\ th[g].vstate = "lookup"
     /\ Cardinality(funcCache[p]) = 2

\* C17: a bool setter returns true exactly when the setter export was
\* called and reported success; when the guest rejects the value the setter
\* returns false and the href of the object is what it was before the call.
C17_SetterResult ==
  \A g \in G :
    Returned(g, {"SetterBool"}) =>
      /\ (th[g].out.v = 1) <=> (th[g].vstate = "ok")
      /\ th[g].vstate = "rejected" =>
           /\ th[g].out.v = 0
           /\ TextOf(th[g].inst, th[g].obj) = th[g].before
C17_Witness ==
  \E g \in G :
     /\ Returned(g, {"SetterBool"}) /\ th[g].vstate = "rejected"
     /\ th[g].before # 0 /\ th[g].ulen = 4

\* the caller has parsed the string Href() gave it again, and asked the new
\* handle for its href
Reparsed(g, ops) == Returned(g, ops) /\ th[g].src # 0

C21_FreeNeverNull ==
  \A g \in Threads : (InCall(g) /\ th[g].fn = "free") => th[g].arg # 0

WriteFailed(g) ==
  Returned(g, {"New", "NewWithBase", "SetterBool", "SetterVoid"})
    /\ th[g].wblock # 0

\* C23 as stated: after a failed copy the block was freed exactly once, the
\* operation failed, and the block was not used.
C23_FailedWriteFreedOnce ==
  \A g \in G :
    WriteFailed(g) =>
      /\ th[g].wfrees = 1 /\ ~th[g].wuse
      /\ th[g].out.h = 0 /\ th[g].out.v = 0
      /\ th[g].op \in {"New", "NewWithBase"} => th[g].out.err = "other"

\* C23, amended: after a failed copy the block was freed exactly once when
\* the module exports free (and by no call when it does not), the operation
\* failed, and the block was not used.
C23_FailedWriteFreedOnceIfExported ==
  \A g \in G :
    WriteFailed(g) =>
      /\ th[g].wfrees = (IF Has("free") THEN 1 ELSE 0) /\ ~th[g].wuse
      /\ th[g].out.h = 0 /\ th[g].out.v = 0
      /\ th[g].op \in {"New", "NewWithBase"} => th[g].out.err = "other"
C23_Witness ==
  \E g \in G : WriteFailed(g) /\ th[g].op = "NewWithBase" /\ th[g].wfrees = 1

\* C24 as stated: a readAdaString whose scratch allocation succeeded has
\* called free exactly once when it returns, on every exit path.
C24_ScratchFreedOnce ==
  \A g \in G :
    (Returned(g, {"Accessor"}) /\ th[g].salloc) => th[g].frees = 1

\* C24, amended: a readAdaString whose scratch allocation succeeded has
\* called free exactly once when it returns, on every exit path, when the
\* module exports free; it makes no free call when it does not.
C24_ScratchFreedOnceIfExported ==
  \A g \in G :
    (Returned(g, {"Accessor"}) /\ th[g].salloc) =>
       th[g].frees = (IF Has("free") THEN 1 ELSE 0)
C24_Witness ==
  \E g \in G :
     /\ Returned(g, {"Accessor"}) /\ th[g].salloc /\ th[g].frees = 1
     /\ th[g].cause = "callerr"

\* C25: once the result struct is decoded, readAdaString returns ("", nil)
\* without reading string bytes when the buffer pointer or the length is 0;
\* otherwise it reads once and returns the `length` bytes read, or an error
\* when the read failed.
C25_ReadAdaStringResult ==
  \A g \in G :
    (Returned(g, {"Accessor"}) /\ th[g].sdec) =>
       IF th[g].sbp = 0 \/ th[g].slen = 0
         THEN th[g].out.v = 0 /\ th[g].rserr = "nil" /\ th[g].sreads = 0
       ELSE /\ th[g].sreads = 1
            /\ \/ th[g].rserr = "nil" /\ th[g].out.v = th[g].slen
               \/ th[g].rserr = "err" /\ th[g].out.v = 0 /\ th[g].cause # ""
C25_Witness ==
  \E g \in G :
     /\ Returned(g, {"Accessor"}) /\ th[g].sdec
     /\ th[g].sbp # 0 /\ th[g].slen = 0

\* the number a uint32 (halves) or a length (limbs) stands for, as four limbs
Limbs(x) == IF Len(x) = 2 THEN <<0, 0>> \o x
            ELSE IF Len(x) = 3 THEN <<0>> \o x
            ELSE x

\* C26: the 8 bytes are decoded as two unsigned little-endian 32-bit fields:
\* bufferPtr = b0 + 2^8 b1 + 2^16 b2 + 2^24 b3, length likewise from b4..b7,
\* both within 0..2^32-1 (no sign extension, no overflow).
C26_LittleEndianDecode ==
  conv.pc = "decoded" =>
    LET b == conv.resultBytes
    IN /\ conv.bufferPtr = <<b[2] + 256 * b[3], b[0] + 256 * b[1]>>
       /\ conv.length = <<b[6] + 256 * b[7], b[4] + 256 * b[5]>>
       /\ \A w \in {conv.bufferPtr, conv.length} :
            w[1] \in 0..(Half - 1) /\ w[2] \in 0..(Half - 1)
C26_Witness ==
  /\ conv.pc = "decoded"
  /\ conv.resultBytes[3] = 255 /\ conv.resultBytes[7] = 128
  /\ conv.resultBytes[0] = 1

\* C27: for a non-empty string of length below 2^32, the size passed to
\* malloc, the number of bytes written and the length passed to the export
\* all equal len(s).
C27_SizesEqualLen ==
  (conv.pc = "written" /\ conv.len[1] = 0) =>
     /\ Limbs(conv.mallocSize) = Limbs(conv.len)
     /\ Limbs(conv.written) = Limbs(conv.len)
     /\ Limbs(conv.lenArg) = Limbs(conv.len)
C27_Witness ==
  conv.pc = "written" /\ conv.len = <<0, 65535, 65535>>
\* an operation on an existing handle (a construction has no handle yet)
OnHandleOps == {"Free", "finalizer", "Predicate", "Accessor", "SetterBool",
                "SetterVoid"}

\* C28: every guest call made on behalf of a handle targets the instance of
\* the Parser that created the handle, the handle-to-parser binding never
\* changes, and the guest objects of an instance change only by the return
\* of a guest call on that instance: operations on the handles of one
\* Parser never touch another Parser's instance.
C28_HandleBoundToParser ==
  /\ [](\A g \in Threads :
          (Busy(g) /\ th[g].op \in OnHandleOps) =>
             th[g].inst = hparser[th[g].h])
  /\ [][/\ \A h \in Handles : h <= nh => hparser'[h] = hparser[h]
        /\ \A j \in Insts :
             objs'[j] # objs[j] =>
               \E g \in Threads : th[g].pc = "call" /\ th[g].inst = j
                                  /\ th'[g].pc # "call"]_vars
C28_Witness ==
  /\ \A p \in Insts : pmod[p] = "open"
  /\ \E h1, h2 \in Handles :
       /\ h1 <= nh /\ h2 <= nh /\ hparser[h1] = 1 /\ hparser[h2] = 2
       /\ \E g \in Threads :
            /\ th[g].pc = "call" /\ th[g].op \in OnHandleOps
            /\ th[g].h = h2 /\ th[g].inst = 2

\* the one-time initialization was run and left no module behind
InitFailed ==
  /\ initRuns >= 1 /\ initOnce # "running"
  /\ wasmModule = "nil" /\ compiledModule = "nil"
Constructors == {"New", "NewWithBase", "NewParser"}

\* C29: if the one-time instantiation (compilation) of the module fails,
\* the initialization panics in the caller that ran it, it is never run
\* again, and from then on no New, NewWithBase or NewParser makes a guest
\* call or returns a handle or a Parser: each panics or returns an error.
C29_InitFailureIsFatal ==
  /\ [](InitFailed =>
         /\ initRuns = 1
         /\ nh = 0
         /\ \A p \in Insts : pmod[p] \notin {"open", "closed"}
         /\ \A g \in G :
              th[g].op \in Constructors =>
                /\ ~th[g].called
                /\ th[g].out.h = 0
                /\ th[g].pc = "done" =>
                     \/ th[g].out.kind = "panic"
                     \/ th[g].out.err # "nil")
  /\ [][(~InitFailed /\ InitFailed') =>
          \E g \in G : /\ th[g].pc = "init"
                       /\ th'[g].out = [kind |-> "panic", err |-> "init",
                                        h |-> 0, v |-> 0]]_vars
  /\ [][InitFailed => (InitFailed' /\ initRuns' = initRuns)]_vars
\* a constructor called after the failed initialization has ended in the
\* panic of a nil module
C29_Witness ==
  /\ InitFailed
  /\ \E g \in G : /\ Returned(g, Constructors)
                   /\ th[g].out.kind = "panic" /\ th[g].out.err = "nil"

\* no operation and no finalizer run is in progress
AllIdle == \A g \in Threads : ~Busy(g)
\* the handles whose pointer is non-zero
NonZero == {h \in Handles : h <= nh /\ cpointer[h] # 0}

\* C30: with the ada_free export present, whenever no operation is in
\* progress the guest objects returned by the parse exports and not yet
\* passed to ada_free are exactly the objects the handles with a non-zero
\* pointer point to, one object per handle: no object leaks and no handle
\* points to a freed object.
C30_ObjectsMatchHandles ==
  (Has("ada_free") /\ AllIdle) =>
     /\ Cardinality(objs[1]) = Cardinality(NonZero)
     /\ objs[1] = {cpointer[h] : h \in NonZero}
C30_Witness ==
  /\ Has("ada_free") /\ AllIdle
  /\ \E h1, h2 \in Handles :
       /\ h1 # h2 /\ h1 <= nh /\ h2 <= nh
       /\ freed[h1] /\ cpointer[h1] = 0 /\ cpointer[h2] # 0
  /\ Cardinality(objs[1]) = 1

\* the operations that copy an input string into guest memory
StringOps == {"New", "NewWithBase", "SetterBool", "SetterVoid"}
\* free calls the operation of g made on block p
FreesOf(g, p) ==
  Cardinality({i \in DOMAIN th[g].wfreed : th[g].wfreed[i] = p})

\* C31: in New, NewWithBase and the setters every input-string buffer
\* allocated in guest memory has been passed to free exactly once when the
\* operation returns, whichever way it ends, and is never passed twice.
C31_BuffersFreedOnce ==
  \A g \in G :
    th[g].op \in StringOps =>
      \A p \in th[g].walloc :
        /\ FreesOf(g, p) <= 1
        /\ th[g].pc = "done" => FreesOf(g, p) = 1
\* C31 as amended: the same when the module exports free.
C31_BuffersFreedOnceIfExported ==
  Has("free") =>
    \A g \in G :
      th[g].op \in StringOps =>
        \A p \in th[g].walloc :
          /\ FreesOf(g, p) <= 1
          /\ th[g].pc = "done" => FreesOf(g, p) = 1
\* NewWithBase returned after the write of the base string failed, with the
\* url buffer allocated before it
C31_Witness ==
  /\ Has("free")
  /\ \E g \in G : /\ Returned(g, {"NewWithBase"})
                   /\ Cardinality(th[g].walloc) = 2
                   /\ th[g].wblock # 0

\* inside a public operation of the global design, past Lock() and before
\* the deferred Unlock()
InsideOp(g) == th[g].pc \notin {"idle", "lock", "done"}

\* C32: in the global design the goroutine inside a public operation is the
\* one holding wasmMutex, the mutex is free whenever no operation is in
\* progress, whichever way the last one ended, and under fair scheduling
\* with terminating guest calls every goroutine that has called a public
\* operation returns from it.
C32_MutexReleased ==
  /\ [](\A g \in G : InsideOp(g) <=> wasmMutex = g)
  /\ []((\A g \in G : ~InsideOp(g)) => wasmMutex = 0)
  /\ \A g \in G : (th[g].pc = "lock") ~> (th[g].pc = "done")
\* an operation that ended in an error or a panic has returned while
\* another goroutine is blocked in Lock()
C32_Witness ==
  \E g1, g2 \in G :
    /\ g1 # g2
    /\ th[g1].pc = "done"
    /\ th[g1].out.kind = "panic" \/ th[g1].out.err # "nil"
    /\ th[g2].pc = "lock"
    /\ wasmMutex = 0

\* the one-time initialization has completed and left a module
InitCompleted == initOnce = "done" /\ wasmModule = "ok"

\* C33: no guest call or guest memory access is in progress before the
\* one-time initialization has completed, the finalizer's included; only
\* New and NewWithBase run the initialization, and every handle was
\* returned after it completed.
C33_NoCallBeforeInit ==
  /\ \A g \in Threads : th[g].pc = "call" => InitCompleted
  /\ \A g \in Threads :
       th[g].pc \in {"init", "waitInit", "inited"} =>
          th[g].op \in {"New", "NewWithBase"}
  /\ nh >= 1 => InitCompleted
\* a predicate called on a Url that no constructor returned, in a process
\* that has not been initialized, has ended without a guest call
C33_Witness ==
  /\ initOnce = "new"
  /\ \E g \in G : /\ Returned(g, {"Predicate"})
                   /\ th[g].h = 0 /\ ~th[g].called

C35_ResolverTransparent ==
  /\ \A g \in G :
       Returned(g, {"getFunction"}) =>
         /\ (th[g].out.v = 0) <=> ~Has(th[g].name)
         /\ th[g].out.v # 0 =>
              [name |-> th[g].name, fn |-> th[g].out.v] \in funcCache[th[g].inst]
  /\ \A p \in Insts : \A e \in funcCache[p] : e.fn # 0 /\ Has(e.name)
\* a missing name was resolved a second time: the first miss left nothing
\* in the cache
C35_Witness ==
  \E g \in G, p \in Insts, n \in CacheNames :
    /\ ~Has(n) /\ lookups[p][n] = 2 /\ Cached(p, n) = {}
    /\ Returned(g, {"getFunction"}) /\ th[g].inst = p /\ th[g].name = n
    /\ th[g].out.v = 0

====
